---- MODULE Spec2Model ----
(***************************************************************************)
(* gcp-project-automation: the resilient call executor                     *)
(* (GCPClient._execute_api_call), the two convergence polls and the        *)
(* provisioning workflow of main.py.                                       *)
(*                                                                         *)
(* Python values: a str is a string; None in a str-typed slot is NONE; an  *)
(* optional object (a request body, a Response) is a sequence of length 0  *)
(* (None) or 1; a dict is a function from its keys; a list is a sequence.  *)
(***************************************************************************)
EXTENDS Integers, Sequences, FiniteSets, TLC

\* ------------------------------------------------------------------ bounds
\* Longest failure prefix of a scripted server (attempts before the final outcome).
MaxK == 13
\* Most unsuccessful iterations of one polling loop in a modelled run.
MaxPolls == 2

\* ------------------------------------------------------------ Python values
NONE == "<None>"
Nothing == << >>
Some(x) == << x >>
EmptyDict == << >>

\* dict.get(key) for a str-valued key.
Get(d, key) == IF key \in DOMAIN d THEN d[key] ELSE NONE

\* Truthiness of a str-or-None value (None and "" are falsy).
TruthyStr(s) == s # NONE /\ s # ""

\* Truthiness of a dict (the empty dict is falsy).
TruthyDict(d) == DOMAIN d # {}

\* ------------------------------------------------------------------ statics
GCP_CRM_BASE_URL == "https://cloudresourcemanager.googleapis.com/v3"
FIREBASE_BASE_URL == "https://firebase.googleapis.com/v1beta1"

\* --------------------------------------------------- the call executor
\* Retry(total=10, ...): the number of retries allowed after the first request.
total == 10

status_forcelist_with_401 == {400, 401, 403, 404, 500, 502, 503, 504}
status_forcelist == {400, 403, 404, 500, 502, 503, 504}

\* method_whitelist=False: no method is excluded from retrying.  A set of
\* method names would restrict retries to those methods.
method_whitelist_default == {"get", "head", "put", "delete", "options", "trace"}
method_whitelist == {}

is_method_retryable(method) ==
    method_whitelist = {} \/ method \in method_whitelist

\* Retry.is_retry: a response is retried when its status is force-listed.
is_retry(method, status) ==
    is_method_retryable(method) /\ status \in status_forcelist

\* What one HTTP attempt meets: a response, or a transport error.
Resp(status, json) == [status |-> status, json |-> json]
TransportError(kind) == [error |-> kind]
IsResponse(o) == "status" \in DOMAIN o

\* A connection-level error the retry policy absorbs (connect / read error),
\* and one raised at once (invalid URL, broken body encoding, ...).
ConnectionFailed == TransportError("connection")
Unrecoverable == TransportError("unrecoverable")

\* A scripted server: outcome of attempt i; the last outcome repeats for ever.
ServerAt(server, i) == IF i <= Len(server) THEN server[i] ELSE server[Len(server)]

\* The exceptions s.request can raise, all of them requests' own.
RequestExceptions == {"ConnectionError", "RetryError", "RequestException"}

\* except requests.exceptions.RequestException
caught_only_connection_error(exc) == exc = "ConnectionError"
Caught(exc) == exc \in RequestExceptions

Returned(sent, value) == [sent |-> sent, outcome |-> "return", value |-> value]
Raised(sent, exc) == [sent |-> sent, outcome |-> "raise", exc |-> exc]

\* s.request under the mounted Retry: request number i with `retries` left.
\* Each failure absorbed by the policy costs one of the `total`; the policy is
\* exhausted when the count would drop below zero.
RECURSIVE session_request(_, _, _, _)
session_request(method, server, i, retries) ==
    LET o == ServerAt(server, i) IN
    IF IsResponse(o)
    THEN IF is_retry(method, o.status)
         THEN IF retries - 1 < 0
              THEN Raised(i, "RetryError")
              ELSE session_request(method, server, i + 1, retries - 1)
         ELSE Returned(i, Some(o))
    ELSE IF o = ConnectionFailed
         THEN IF retries - 1 < 0
              THEN Raised(i, "ConnectionError")
              ELSE session_request(method, server, i + 1, retries - 1)
         ELSE Raised(i, "RequestException")

\* json.dumps(body) if body else None
JsonDumps(d) == [text |-> d]
Payload(body) ==
    IF body # Nothing /\ TruthyDict(body[1]) THEN Some(JsonDumps(body[1])) ELSE Nothing

\* self.credentials, set by _obtain_credentials and read by every call.
VARIABLE credentials

\* What _obtain_credentials can leave in self.credentials: the token stored in
\* token.json, the one credentials.refresh gives for an expired stored one, or
\* the one the installed-app flow gives.
Tokens == [stored |-> "ya29.stored", refreshed |-> "ya29.refreshed", flow |-> "ya29.flow"]

\* f"Bearer {self.credentials.token}"
Bearer(token) == "Bearer " \o token
headers_of_stored_token ==
    [Authorization |-> Bearer(Tokens.stored), ContentType |-> "application/json"]
headers ==
    [Authorization |-> Bearer(credentials.token), ContentType |-> "application/json"]

\* _execute_api_call: the request sent, and how the call ends.
execute_api_call(url, method, body, server) ==
    LET r == session_request(method, server, 1, total) IN
    LET request == [url |-> url, method |-> method, data |-> Payload(body),
                    headers |-> headers] IN
    IF r.outcome = "raise" /\ Caught(r.exc)
    THEN [request |-> request, sent |-> r.sent, outcome |-> "return", value |-> Nothing]
    ELSE [request |-> request] @@ r

\* ------------------------------------------------------------------ state
VARIABLES
    arguments,       \* main: the flat mapping of inputs
    pc,              \* main / add_app_to_firebase_project: the next remote call
    app_type,        \* ApplicationType of the platform workflow in progress
    fb_seconds,      \* add_app_to_firebase_project: delay of the activation poll
    apps_seconds,    \* add_app_to_firebase_project: delay of the registration poll
    apps,            \* add_app_to_firebase_project: last listing body (None at first)
    android_app_id,  \* main: result of the Android add_app_to_firebase_project
    ios_app_id,      \* main: result of the iOS add_app_to_firebase_project
    calls,           \* history: the request of every _execute_api_call, in order
    fetched,         \* history: the bodies read by the polling loop in progress
                     \*   (or just ended), each with its call's index
    sleeps,          \* history: the time.sleep calls of that loop, in order
    observed,        \* history: the body every finished poll ended with, and every
                     \*   config body read, each with its call's index
    files,           \* the local filesystem: artifacts written
    error,           \* the exception that ended the run, if any
    x_method,        \* a single executor invocation: its method,
    x_body,          \*   its body,
    x_server,        \*   the scripted server it talks to,
    x_result,        \*   and how it ended (None before the call)
    argv,            \* fetch_args: what parse_args gives (absent = None)
    config_json,     \* main: the content of the external configuration file
    token_usable,    \* _obtain_credentials: token.json yields credentials
                     \*   (valid as stored, or expired and refreshable)
    document,        \* the remote side: each platform's artifact (a value and
                     \*   the form it is serialised in)
    config           \* the remote side: each platform's getConfig body

orch_vars == << arguments, pc, app_type, fb_seconds, apps_seconds, apps,
                android_app_id, ios_app_id, calls, fetched, sleeps, observed,
                files, error >>
exec_vars == << x_method, x_body, x_server, x_result >>
input_vars == << argv, config_json, token_usable, credentials >>
remote_vars == << document, config >>
vars == << arguments, pc, app_type, fb_seconds, apps_seconds, apps,
           android_app_id, ios_app_id, calls, fetched, sleeps, observed,
           files, error,
           x_method, x_body, x_server, x_result,
           argv, config_json, token_usable, credentials, document, config >>

ANDROID == "ANDROID"
IOS == "IOS"

\* ------------------------------------------------------- request shapes
Url(base, path) == [base |-> base, path |-> path]

\* f"{app_type.name.lower()}Apps" / url_part
AppsPart_always_ios(t) == "iosApps"
AppsPart(t) == IF t = ANDROID THEN "androidApps" ELSE "iosApps"

\* create_gcp_project: the body of POST /projects
create_gcp_project_body_name_always(gcp_project_id, project_name) ==
    [projectId |-> gcp_project_id, displayName |-> project_name]
create_gcp_project_body(gcp_project_id, project_name) ==
    IF TruthyStr(project_name)
    THEN [projectId |-> gcp_project_id, displayName |-> project_name]
    ELSE [projectId |-> gcp_project_id]

\* add_app_to_firebase_project: the activation predicate of the first loop
project_is_active_any_project(fb_project, fb_project_id) ==
    /\ TruthyDict(fb_project)
    /\ Get(fb_project, "state") = "ACTIVE"
project_is_active_any_state(fb_project, fb_project_id) ==
    /\ TruthyDict(fb_project)
    /\ Get(fb_project, "projectId") = fb_project_id
project_is_active(fb_project, fb_project_id) ==
    /\ TruthyDict(fb_project)
    /\ Get(fb_project, "projectId") = fb_project_id
    /\ Get(fb_project, "state") = "ACTIVE"

\* add_app_to_firebase_project: target URL of the application-create POST
app_target_url(fb_project_id, t) ==
    Url(FIREBASE_BASE_URL, << "projects", fb_project_id, AppsPart(t) >>)

\* add_app_to_firebase_project: body of the application-create POST
app_body_without_platform_branch(t, package_name, app_name, store_id) ==
    IF TruthyStr(app_name)
    THEN [packageName |-> package_name] @@ [displayName |-> app_name]
    ELSE [packageName |-> package_name]
app_body(t, package_name, app_name, store_id) ==
    LET platform == IF t = ANDROID
                    THEN [packageName |-> package_name]
                    ELSE IF TruthyStr(store_id)
                         THEN [bundleId |-> package_name, appStoreId |-> store_id]
                         ELSE [bundleId |-> package_name]
    IN IF TruthyStr(app_name)
       THEN platform @@ [displayName |-> app_name]
       ELSE platform

\* add_app_to_firebase_project: fb_seconds = fb_seconds + 1 (and apps_seconds)
next_delay_unchanged(seconds) == seconds
next_delay_doubled(seconds) == seconds * 2
next_delay(seconds) == seconds + 1

\* add_app_to_firebase_project: `while not apps` goes on
apps_pending(listing) == ~TruthyDict(listing)

\* add_app_to_firebase_project: first_app = apps.get("apps")[0]
last_app(listing) == listing.apps[Len(listing.apps)]
first_app(listing) == listing.apps[1]

\* main: the arguments of the add_app_to_firebase_project call per platform
package_name_of(t) ==
    IF t = ANDROID THEN arguments.android_package ELSE arguments.ios_bundle_id
app_name_of(t) ==
    IF t = ANDROID THEN arguments.android_app_name ELSE arguments.ios_app_name
store_id_of(t) ==
    IF t = ANDROID THEN NONE ELSE arguments.app_store_id
config_path_of(t) ==
    IF t = ANDROID THEN arguments.android_config_path ELSE arguments.ios_config_path
app_id_of_other_platform(t) ==
    IF t = ANDROID THEN ios_app_id ELSE android_app_id
app_id_of(t) ==
    IF t = ANDROID THEN android_app_id ELSE ios_app_id

\* main: `if ios_bundle_id:`
ios_requested_unconditionally == TRUE
ios_requested == TruthyStr(arguments.ios_bundle_id)

\* download_app_configuration: the destination directory, normalised.
\* A path is a sequence of characters, None is Nothing.
normalise_path_always_suffixed(path) ==
    LET p == IF path # Nothing /\ path[1] # << >> THEN path[1] ELSE << >> IN
    IF p = << >> THEN p ELSE Append(p, "/")
normalise_path(path) ==
    LET p == IF path # Nothing /\ path[1] # << >> THEN path[1] ELSE << >> IN
    IF p = << >> \/ p[Len(p)] = "/" THEN p ELSE Append(p, "/")

\* ------------------------------------------------------ artifact formats
\* bytes is a sequence of 0..255; a str is a sequence of code points; a
\* Base64 text is a sequence of alphabet indexes 0..63 and the padding "=".
Pad == 64

\* Long sequences are worked on by halves: the halves of a Base64 text are cut
\* between two groups of four symbols, those of bytes between two groups of
\* three.
\* base64.b64decode: four symbols give three bytes, padding cuts the last group.
RECURSIVE b64decode(_)
b64decode(s) ==
    IF Len(s) < 4 THEN << >>
    ELSE IF Len(s) < 8
    THEN LET b1 == s[1] * 4 + (s[2] \div 16)
             b2 == (s[2] % 16) * 16 + (s[3] \div 4)
             b3 == (s[3] % 4) * 64 + s[4]
         IN IF s[3] = Pad THEN << b1 >>
            ELSE IF s[4] = Pad THEN << b1, b2 >>
            ELSE << b1, b2, b3 >>
    ELSE LET half == ((Len(s) \div 4) \div 2) * 4 IN
         b64decode(SubSeq(s, 1, half)) \o b64decode(SubSeq(s, half + 1, Len(s)))

\* The encoding the remote side applies to the artifact's bytes.
RECURSIVE b64encode(_)
b64encode(b) ==
    IF Len(b) = 0 THEN << >>
    ELSE IF Len(b) = 1
    THEN << b[1] \div 4, (b[1] % 4) * 16, Pad, Pad >>
    ELSE IF Len(b) = 2
    THEN << b[1] \div 4, (b[1] % 4) * 16 + (b[2] \div 16), (b[2] % 16) * 4, Pad >>
    ELSE IF Len(b) = 3
    THEN << b[1] \div 4, (b[1] % 4) * 16 + (b[2] \div 16),
            (b[2] % 16) * 4 + (b[3] \div 64), b[3] % 64 >>
    ELSE LET half == (((Len(b) \div 3) + 1) \div 2) * 3 IN
         b64encode(SubSeq(b, 1, half)) \o b64encode(SubSeq(b, half + 1, Len(b)))

\* bytes.decode("utf8"): the code points of a byte sequence, or the position
\* no code point starts at (UnicodeDecodeError).
IsContinuation(b, i) == i <= Len(b) /\ b[i] >= 128 /\ b[i] < 192
Utf8Width(b, i) ==
    IF b[i] < 128 THEN 1
    ELSE IF b[i] >= 194 /\ b[i] < 224 /\ IsContinuation(b, i + 1) THEN 2
    ELSE IF /\ b[i] >= 224 /\ b[i] < 240
            /\ IsContinuation(b, i + 1) /\ IsContinuation(b, i + 2)
            /\ (b[i] = 224 => b[i + 1] >= 160)
            /\ (b[i] = 237 => b[i + 1] < 160)
    THEN 3
    ELSE IF /\ b[i] >= 240 /\ b[i] < 245
            /\ IsContinuation(b, i + 1) /\ IsContinuation(b, i + 2)
            /\ IsContinuation(b, i + 3)
            /\ (b[i] = 240 => b[i + 1] >= 144)
            /\ (b[i] = 244 => b[i + 1] < 144)
    THEN 4
    ELSE 0
Utf8CodePoint(b, i, width) ==
    IF width = 1 THEN b[i]
    ELSE IF width = 2 THEN (b[i] - 192) * 64 + (b[i + 1] - 128)
    ELSE IF width = 3
    THEN (b[i] - 224) * 4096 + (b[i + 1] - 128) * 64 + (b[i + 2] - 128)
    ELSE (b[i] - 240) * 262144 + (b[i + 1] - 128) * 4096
             + (b[i + 2] - 128) * 64 + (b[i + 3] - 128)

\* The code points of bytes lo..hi, lo being where a code point starts; a long
\* range is cut where the next code point after its middle starts.
Utf8Both(left, right) ==
    IF left.ok /\ right.ok THEN [ok |-> TRUE, text |-> left.text \o right.text]
    ELSE [ok |-> FALSE, text |-> << >>]
RECURSIVE utf8_decode_range(_, _, _)
utf8_decode_range(b, lo, hi) ==
    IF lo > hi THEN [ok |-> TRUE, text |-> << >>]
    ELSE LET width == Utf8Width(b, lo) IN
         IF width = 0 \/ lo + width - 1 > hi THEN [ok |-> FALSE, text |-> << >>]
         ELSE LET first == [ok |-> TRUE, text |-> << Utf8CodePoint(b, lo, width) >>]
                  middle == (lo + hi) \div 2
                  starts == { j \in (middle + 1)..(middle + 4) :
                                 j <= hi /\ ~IsContinuation(b, j) }
              IN IF hi - lo < 8 \/ starts = {}
                 THEN Utf8Both(first, utf8_decode_range(b, lo + width, hi))
                 ELSE LET cut == CHOOSE j \in starts : \A k \in starts : j <= k IN
                      Utf8Both(utf8_decode_range(b, lo, cut - 1),
                               utf8_decode_range(b, cut, hi))
ascii_decode(b) ==
    IF \A k \in DOMAIN b : b[k] < 128 THEN [ok |-> TRUE, text |-> b]
    ELSE [ok |-> FALSE, text |-> << >>]
\* Bytes below 128 are their own code points.
utf8_decode(b) ==
    IF \A k \in DOMAIN b : b[k] < 128 THEN [ok |-> TRUE, text |-> b]
    ELSE utf8_decode_range(b, 1, Len(b))

\* str.encode() / a file opened with encoding="utf-8": the bytes of a str.
Utf8Bytes(c) ==
    IF c < 128 THEN << c >>
    ELSE IF c < 2048 THEN << 192 + (c \div 64), 128 + (c % 64) >>
    ELSE IF c < 65536
    THEN << 224 + (c \div 4096), 128 + ((c \div 64) % 64), 128 + (c % 64) >>
    ELSE << 240 + (c \div 262144), 128 + ((c \div 4096) % 64),
            128 + ((c \div 64) % 64), 128 + (c % 64) >>
RECURSIVE utf8_encode(_)
utf8_encode(text) ==
    IF \A k \in DOMAIN text : text[k] < 128 THEN text
    ELSE IF Len(text) = 1 THEN Utf8Bytes(text[1])
    ELSE LET half == Len(text) \div 2 IN
         utf8_encode(SubSeq(text, 1, half))
         \o utf8_encode(SubSeq(text, half + 1, Len(text)))

\* ord(c) of the characters the modelled documents are written with.
Ord(c) ==
    CASE c = "\t" -> 9 [] c = "\n" -> 10 [] c = "\r" -> 13 [] c = " " -> 32
      [] c = "!" -> 33 [] c = "\"" -> 34 [] c = "," -> 44 [] c = "-" -> 45
      [] c = "." -> 46 [] c = "/" -> 47 [] c = "0" -> 48 [] c = "1" -> 49
      [] c = "2" -> 50 [] c = "3" -> 51 [] c = "4" -> 52 [] c = "5" -> 53
      [] c = "6" -> 54 [] c = "7" -> 55 [] c = "8" -> 56 [] c = "9" -> 57
      [] c = ":" -> 58 [] c = "<" -> 60 [] c = "=" -> 61 [] c = ">" -> 62
      [] c = "?" -> 63 [] c = "A" -> 65 [] c = "B" -> 66 [] c = "C" -> 67
      [] c = "D" -> 68 [] c = "E" -> 69 [] c = "F" -> 70 [] c = "I" -> 73
      [] c = "L" -> 76 [] c = "N" -> 78 [] c = "O" -> 79 [] c = "P" -> 80
      [] c = "S" -> 83 [] c = "T" -> 84 [] c = "U" -> 85 [] c = "Y" -> 89
      [] c = "[" -> 91 [] c = "\\" -> 92 [] c = "]" -> 93 [] c = "a" -> 97
      [] c = "b" -> 98 [] c = "c" -> 99 [] c = "d" -> 100 [] c = "e" -> 101
      [] c = "f" -> 102 [] c = "g" -> 103 [] c = "h" -> 104 [] c = "i" -> 105
      [] c = "k" -> 107 [] c = "l" -> 108 [] c = "m" -> 109 [] c = "n" -> 110
      [] c = "o" -> 111 [] c = "p" -> 112 [] c = "r" -> 114 [] c = "s" -> 115
      [] c = "t" -> 116 [] c = "u" -> 117 [] c = "v" -> 118 [] c = "w" -> 119
      [] c = "x" -> 120 [] c = "y" -> 121 [] c = "{" -> 123 [] c = "}" -> 125
Chars(cs) == [i \in DOMAIN cs |-> Ord(cs[i])]

\* A JSON document as json.loads builds it: an int, a str (its code points),
\* True / False / None, a list, or a dict, which keeps the order of its keys.
JInt(n) == [int |-> n]
JStr(text) == [str |-> text]
JLit(name) == [lit |-> name]
JArr(items) == [arr |-> items]
JObj(members) == [obj |-> members]
Member(key, value) == [key |-> key, value |-> value]

\* d[key] = value on a dict: a key already there keeps its place.
DictSet(members, key, value) ==
    IF \E k \in DOMAIN members : members[k].key = key
    THEN [k \in DOMAIN members |->
             IF members[k].key = key THEN Member(key, value) ELSE members[k]]
    ELSE Append(members, Member(key, value))

\* --- writing JSON text
RECURSIVE Digits(_)
Digits(n) ==
    IF n < 10 THEN << Ord("0") + n >>
    ELSE Digits(n \div 10) \o << Ord("0") + (n % 10) >>

\* A str between quotes; the quote and the backslash are escaped, every other
\* character of the modelled documents is written as it is (ensure_ascii=False).
RECURSIVE JsonEscaped(_)
JsonEscaped(text) ==
    IF text = << >> THEN << >>
    ELSE (IF text[1] = Ord("\"") \/ text[1] = Ord("\\")
          THEN << Ord("\\"), text[1] >>
          ELSE << text[1] >>) \o JsonEscaped(Tail(text))
JsonString(text) == << Ord("\"") >> \o JsonEscaped(text) \o << Ord("\"") >>
JsonLiteral(name) ==
    IF name = "true" THEN Chars(<< "t", "r", "u", "e" >>)
    ELSE IF name = "false" THEN Chars(<< "f", "a", "l", "s", "e" >>)
    ELSE Chars(<< "n", "u", "l", "l" >>)

RECURSIVE Spaces(_)
Spaces(n) == IF n = 0 THEN << >> ELSE << Ord(" ") >> \o Spaces(n - 1)

\* The line break and indentation json.dump(..., indent=indent) writes before an
\* item at nesting `level`; indent 0 stands here for the form without them.
NewlineIndent(indent, level) ==
    IF indent = 0 THEN << >> ELSE << Ord("\n") >> \o Spaces(indent * level)

RECURSIVE json_text(_, _, _), json_items(_, _, _, _), json_members(_, _, _, _)
json_text(d, indent, level) ==
    IF DOMAIN d = {"int"}
    THEN (IF d.int < 0 THEN << Ord("-") >> \o Digits(0 - d.int) ELSE Digits(d.int))
    ELSE IF DOMAIN d = {"str"} THEN JsonString(d.str)
    ELSE IF DOMAIN d = {"lit"} THEN JsonLiteral(d.lit)
    ELSE IF DOMAIN d = {"arr"}
    THEN IF d.arr = << >> THEN << Ord("["), Ord("]") >>
         ELSE << Ord("[") >> \o NewlineIndent(indent, level + 1)
              \o json_items(d.arr, 1, indent, level + 1)
              \o NewlineIndent(indent, level) \o << Ord("]") >>
    ELSE IF d.obj = << >> THEN << Ord("{"), Ord("}") >>
         ELSE << Ord("{") >> \o NewlineIndent(indent, level + 1)
              \o json_members(d.obj, 1, indent, level + 1)
              \o NewlineIndent(indent, level) \o << Ord("}") >>
json_items(items, k, indent, level) ==
    json_text(items[k], indent, level)
    \o (IF k = Len(items) THEN << >>
        ELSE << Ord(",") >> \o NewlineIndent(indent, level)
             \o json_items(items, k + 1, indent, level))
json_members(members, k, indent, level) ==
    JsonString(members[k].key)
    \o (IF indent = 0 THEN << Ord(":") >> ELSE << Ord(":"), Ord(" ") >>)
    \o json_text(members[k].value, indent, level)
    \o (IF k = Len(members) THEN << >>
        ELSE << Ord(",") >> \o NewlineIndent(indent, level)
             \o json_members(members, k + 1, indent, level))

\* json.dump(decoded_json, outfile, ensure_ascii=False, indent=4)
json_dump(d) == json_text(d, 4, 0)

\* --- reading JSON text (json.loads): a parse step gives the value read and
\* the position after it, or fails (JSONDecodeError).
Parsed(value, next) == [ok |-> TRUE, value |-> value, next |-> next]
ParseFailed == [ok |-> FALSE]
At(t, i, c) == i <= Len(t) /\ t[i] = Ord(c)
IsDigit(t, i) == i <= Len(t) /\ t[i] >= Ord("0") /\ t[i] <= Ord("9")

RECURSIVE SkipWhitespace(_, _)
SkipWhitespace(t, i) ==
    IF i <= Len(t) /\ t[i] \in {Ord(" "), Ord("\n"), Ord("\t"), Ord("\r")}
    THEN SkipWhitespace(t, i + 1)
    ELSE i

RECURSIVE ScanDigits(_, _, _)
ScanDigits(t, i, n) ==
    IF IsDigit(t, i) THEN ScanDigits(t, i + 1, n * 10 + (t[i] - Ord("0")))
    ELSE Parsed(n, i)
ScanNumber(t, i) ==
    IF At(t, i, "-")
    THEN IF IsDigit(t, i + 1)
         THEN LET n == ScanDigits(t, i + 1, 0) IN Parsed(JInt(0 - n.value), n.next)
         ELSE ParseFailed
    ELSE LET n == ScanDigits(t, i, 0) IN Parsed(JInt(n.value), n.next)

\* The characters after an opening quote, up to the closing one.
RECURSIVE ScanString(_, _, _)
ScanString(t, i, text) ==
    IF i > Len(t) THEN ParseFailed
    ELSE IF t[i] = Ord("\"") THEN Parsed(text, i + 1)
    ELSE IF t[i] = Ord("\\")
    THEN IF At(t, i + 1, "\"") \/ At(t, i + 1, "\\")
         THEN ScanString(t, i + 2, Append(text, t[i + 1]))
         ELSE ParseFailed
    ELSE ScanString(t, i + 1, Append(text, t[i]))

StartsWith(t, i, word) ==
    /\ i + Len(word) - 1 <= Len(t)
    /\ \A k \in DOMAIN word : t[i + k - 1] = word[k]

RECURSIVE scan_value(_, _), scan_items(_, _, _), scan_members(_, _, _)
scan_value(t, i) ==
    IF i > Len(t) THEN ParseFailed
    ELSE IF At(t, i, "\"")
    THEN LET s == ScanString(t, i + 1, << >>) IN
         IF s.ok THEN Parsed(JStr(s.value), s.next) ELSE ParseFailed
    ELSE IF IsDigit(t, i) \/ At(t, i, "-") THEN ScanNumber(t, i)
    ELSE IF \E name \in {"true", "false", "null"} : StartsWith(t, i, JsonLiteral(name))
    THEN LET name == CHOOSE n \in {"true", "false", "null"} :
                         StartsWith(t, i, JsonLiteral(n))
         IN Parsed(JLit(name), i + Len(JsonLiteral(name)))
    ELSE IF At(t, i, "[")
    THEN LET j == SkipWhitespace(t, i + 1) IN
         IF At(t, j, "]") THEN Parsed(JArr(<< >>), j + 1) ELSE scan_items(t, j, << >>)
    ELSE IF At(t, i, "{")
    THEN LET j == SkipWhitespace(t, i + 1) IN
         IF At(t, j, "}") THEN Parsed(JObj(<< >>), j + 1) ELSE scan_members(t, j, << >>)
    ELSE ParseFailed
scan_items(t, i, items) ==
    LET v == scan_value(t, i) IN
    IF ~v.ok THEN ParseFailed
    ELSE LET j == SkipWhitespace(t, v.next) IN
         IF At(t, j, ",")
         THEN scan_items(t, SkipWhitespace(t, j + 1), Append(items, v.value))
         ELSE IF At(t, j, "]") THEN Parsed(JArr(Append(items, v.value)), j + 1)
         ELSE ParseFailed
scan_members(t, i, members) ==
    IF ~At(t, i, "\"") THEN ParseFailed
    ELSE LET key == ScanString(t, i + 1, << >>) IN
         IF ~key.ok THEN ParseFailed
         ELSE LET c == SkipWhitespace(t, key.next) IN
              IF ~At(t, c, ":") THEN ParseFailed
              ELSE LET v == scan_value(t, SkipWhitespace(t, c + 1)) IN
                   IF ~v.ok THEN ParseFailed
                   ELSE LET j == SkipWhitespace(t, v.next)
                            seen == DictSet(members, key.value, v.value)
                        IN IF At(t, j, ",")
                           THEN scan_members(t, SkipWhitespace(t, j + 1), seen)
                           ELSE IF At(t, j, "}") THEN Parsed(JObj(seen), j + 1)
                           ELSE ParseFailed

\* json.loads(text): the document, when the whole text is one JSON value.
json_loads(t) ==
    LET v == scan_value(t, SkipWhitespace(t, 1)) IN
    IF v.ok /\ SkipWhitespace(t, v.next) = Len(t) + 1 THEN v ELSE ParseFailed

\* plistlib.PLIST_HEADER: the XML declaration and the document type.
PLIST_HEADER ==
    Chars(<< "<", "?", "x", "m", "l", " ", "v", "e", "r", "s", "i", "o", "n", "=",
             "\"", "1", ".", "0", "\"", " ", "e", "n", "c", "o", "d", "i", "n", "g",
             "=", "\"", "U", "T", "F", "-", "8", "\"", "?", ">", "\n", "<", "!", "D",
             "O", "C", "T", "Y", "P", "E", " ", "p", "l", "i", "s", "t", " ", "P",
             "U", "B", "L", "I", "C", " ", "\"", "-", "/", "/", "A", "p", "p", "l",
             "e", "/", "/", "D", "T", "D", " ", "P", "L", "I", "S", "T", " ", "1",
             ".", "0", "/", "/", "E", "N", "\"", " ", "\"", "h", "t", "t", "p", ":",
             "/", "/", "w", "w", "w", ".", "a", "p", "p", "l", "e", ".", "c", "o",
             "m", "/", "D", "T", "D", "s", "/", "P", "r", "o", "p", "e", "r", "t",
             "y", "L", "i", "s", "t", "-", "1", ".", "0", ".", "d", "t", "d", "\"",
             ">", "\n" >>)
\* The markup of an XML plist.
Markup ==
    [ plist_open |-> Chars(<< "<", "p", "l", "i", "s", "t", " ", "v", "e", "r", "s",
                              "i", "o", "n", "=", "\"", "1", ".", "0", "\"", ">", "\n" >>),
      plist_end |-> Chars(<< "<", "/", "p", "l", "i", "s", "t", ">" >>),
      plist_tag |-> Chars(<< "<", "p", "l", "i", "s", "t" >>),
      xml_tag |-> Chars(<< "<", "?", "x", "m", "l" >>),
      dict_open |-> Chars(<< "<", "d", "i", "c", "t", ">" >>),
      dict_close |-> Chars(<< "<", "/", "d", "i", "c", "t", ">" >>),
      dict_empty |-> Chars(<< "<", "d", "i", "c", "t", "/", ">" >>),
      key_open |-> Chars(<< "<", "k", "e", "y", ">" >>),
      key_close |-> Chars(<< "<", "/", "k", "e", "y", ">" >>),
      string_open |-> Chars(<< "<", "s", "t", "r", "i", "n", "g", ">" >>),
      string_close |-> Chars(<< "<", "/", "s", "t", "r", "i", "n", "g", ">" >>),
      string_empty |-> Chars(<< "<", "s", "t", "r", "i", "n", "g", "/", ">" >>) ]
\* The first bytes of a binary plist.
BinaryMagic ==
    Chars(<< "b", "p", "l", "i", "s", "t", "0", "0" >>)

\* --- property lists.  A plist value is a str or a dict of str values.
\* plistlib writes XML with sorted keys; str order is code point order.
RECURSIVE TextLess(_, _)
TextLess(a, b) ==
    IF a = << >> THEN b # << >>
    ELSE IF b = << >> THEN FALSE
    ELSE IF a[1] # b[1] THEN a[1] < b[1]
    ELSE TextLess(Tail(a), Tail(b))
RECURSIVE InsertSorted(_, _)
InsertSorted(members, m) ==
    IF members = << >> THEN << m >>
    ELSE IF TextLess(m.key, members[1].key) THEN << m >> \o members
    ELSE << members[1] >> \o InsertSorted(Tail(members), m)
RECURSIVE SortedByKey(_)
SortedByKey(members) ==
    IF members = << >> THEN << >>
    ELSE InsertSorted(SortedByKey(Tail(members)), members[1])

RECURSIVE Tabs(_)
Tabs(n) == IF n = 0 THEN << >> ELSE << Ord("\t") >> \o Tabs(n - 1)

\* plistlib.dump(value, fp): fmt=FMT_XML, sort_keys=True.  The modelled strings
\* hold none of the characters XML escapes (& < >).
RECURSIVE plist_xml_value(_, _), plist_xml_members(_, _, _)
plist_xml_value(v, depth) ==
    IF DOMAIN v = {"str"}
    THEN Tabs(depth) \o Markup.string_open \o v.str \o Markup.string_close \o << Ord("\n") >>
    ELSE IF v.obj = << >>
    THEN Tabs(depth) \o Markup.dict_empty \o << Ord("\n") >>
    ELSE Tabs(depth) \o Markup.dict_open \o << Ord("\n") >>
         \o plist_xml_members(SortedByKey(v.obj), 1, depth + 1)
         \o Tabs(depth) \o Markup.dict_close \o << Ord("\n") >>
plist_xml_members(members, k, depth) ==
    Tabs(depth) \o Markup.key_open \o members[k].key \o Markup.key_close \o << Ord("\n") >>
    \o plist_xml_value(members[k].value, depth)
    \o (IF k = Len(members) THEN << >>
        ELSE plist_xml_members(members, k + 1, depth))
plist_dump(v) ==
    utf8_encode(PLIST_HEADER \o Markup.plist_open \o plist_xml_value(v, 0) \o Markup.plist_end \o << Ord("\n") >>)

\* --- reading an XML plist
\* The position after the next ">" (the end of a declaration or a tag).
AfterTagEnd(t, i) ==
    LET ends == { j \in i..Len(t) : t[j] = Ord(">") } IN
    IF ends = {} THEN Len(t) + 1
    ELSE (CHOOSE j \in ends : \A k \in ends : j <= k) + 1
\* Past the XML declaration and the document type, if any.
RECURSIVE SkipProlog(_, _)
SkipProlog(t, i) ==
    LET j == SkipWhitespace(t, i) IN
    IF StartsWith(t, j, Chars(<< "<", "?" >>)) \/ StartsWith(t, j, Chars(<< "<", "!" >>))
    THEN SkipProlog(t, AfterTagEnd(t, j))
    ELSE j
\* Character data up to the next tag.
RECURSIVE ScanCharacterData(_, _, _)
ScanCharacterData(t, i, text) ==
    IF i > Len(t) THEN ParseFailed
    ELSE IF t[i] = Ord("<") THEN Parsed(text, i)
    ELSE ScanCharacterData(t, i + 1, Append(text, t[i]))
ScanElement(t, i, open, close) ==
    LET data == ScanCharacterData(t, i + Len(open), << >>) IN
    IF data.ok /\ StartsWith(t, data.next, close)
    THEN Parsed(data.value, data.next + Len(close))
    ELSE ParseFailed

RECURSIVE xml_value(_, _), xml_members(_, _, _)
xml_value(t, i0) ==
    LET i == SkipWhitespace(t, i0) IN
    IF StartsWith(t, i, Markup.string_empty) THEN Parsed(JStr(<< >>), i + Len(Markup.string_empty))
    ELSE IF StartsWith(t, i, Markup.string_open)
    THEN LET s == ScanElement(t, i, Markup.string_open, Markup.string_close) IN
         IF s.ok THEN Parsed(JStr(s.value), s.next) ELSE ParseFailed
    ELSE IF StartsWith(t, i, Markup.dict_empty) THEN Parsed(JObj(<< >>), i + Len(Markup.dict_empty))
    ELSE IF StartsWith(t, i, Markup.dict_open) THEN xml_members(t, i + Len(Markup.dict_open), << >>)
    ELSE ParseFailed
xml_members(t, i0, members) ==
    LET i == SkipWhitespace(t, i0) IN
    IF StartsWith(t, i, Markup.dict_close) THEN Parsed(JObj(members), i + Len(Markup.dict_close))
    ELSE IF ~StartsWith(t, i, Markup.key_open) THEN ParseFailed
    ELSE LET key == ScanElement(t, i, Markup.key_open, Markup.key_close) IN
         IF ~key.ok THEN ParseFailed
         ELSE LET v == xml_value(t, key.next) IN
              IF ~v.ok THEN ParseFailed
              ELSE xml_members(t, v.next, DictSet(members, key.value, v.value))

plist_loads_xml(bytes) ==
    LET decoded == utf8_decode(bytes) IN
    IF ~decoded.ok THEN ParseFailed
    ELSE LET t == decoded.text
             i == SkipProlog(t, 1)
         IN IF ~StartsWith(t, i, Markup.plist_tag) THEN ParseFailed
            ELSE LET v == xml_value(t, AfterTagEnd(t, i)) IN
                 IF ~v.ok THEN ParseFailed
                 ELSE LET j == SkipWhitespace(t, v.next) IN
                      IF /\ StartsWith(t, j, Markup.plist_end)
                         /\ SkipWhitespace(t, j + Len(Markup.plist_end)) = Len(t) + 1
                      THEN v ELSE ParseFailed

\* --- binary plists ("bplist00"): the header, the objects, the table of their
\* offsets, and a trailer of 32 bytes (6 unused, the size of an offset, the
\* size of an object reference, and three 8-byte numbers: the number of
\* objects, the top object, the offset of the offset table).
RECURSIVE Utf16Bytes(_)
Utf16Bytes(text) ==
    IF text = << >> THEN << >>
    ELSE << text[1] \div 256, text[1] % 256 >> \o Utf16Bytes(Tail(text))
\* A str object: marker 0x5n and ASCII bytes, or 0x6n and UTF-16 code units.
BinaryString(text) ==
    IF \A k \in DOMAIN text : text[k] < 128 THEN << 80 + Len(text) >> \o text
    ELSE << 96 + Len(text) >> \o Utf16Bytes(text)
\* The objects of a plist value, the top object first.  A dict object is the
\* marker 0xDn, the references of its keys, then those of its values.
BinaryObjects(v) ==
    IF DOMAIN v = {"str"} THEN << BinaryString(v.str) >>
    ELSE << << 208 + Len(v.obj) >> \o [k \in 1..Len(v.obj) |-> k]
            \o [k \in 1..Len(v.obj) |-> Len(v.obj) + k] >>
         \o [k \in 1..Len(v.obj) |-> BinaryString(v.obj[k].key)]
         \o [k \in 1..Len(v.obj) |-> BinaryString(v.obj[k].value.str)]
RECURSIVE Concat(_)
Concat(seqs) == IF seqs = << >> THEN << >> ELSE seqs[1] \o Concat(Tail(seqs))
RECURSIVE BigEndian(_, _)
BigEndian(n, width) ==
    IF width = 0 THEN << >> ELSE BigEndian(n \div 256, width - 1) \o << n % 256 >>
\* The binary form of a plist value (objects referenced and placed by one byte).
plist_binary(v) ==
    LET objects == BinaryObjects(v)
        offsets == [k \in DOMAIN objects |->
                       Len(BinaryMagic) + Len(Concat(SubSeq(objects, 1, k - 1)))]
        table == Len(BinaryMagic) + Len(Concat(objects))
    IN BinaryMagic \o Concat(objects) \o offsets
       \o << 0, 0, 0, 0, 0, 0, 1, 1 >>
       \o BigEndian(Len(objects), 8) \o BigEndian(0, 8) \o BigEndian(table, 8)

\* plistlib's binary reader.
RECURSIVE ReadNumber(_, _, _)
ReadNumber(b, i, width) ==
    IF width = 0 THEN 0
    ELSE ReadNumber(b, i, width - 1) * 256 + b[i + width - 1]
RECURSIVE Utf16Text(_, _, _)
Utf16Text(b, i, n) ==
    IF n = 0 THEN << >>
    ELSE << b[i] * 256 + b[i + 1] >> \o Utf16Text(b, i + 2, n - 1)
RECURSIVE read_object(_, _, _, _, _)
read_object(b, table, offset_size, ref_size, ref) ==
    LET at == ReadNumber(b, table + ref * offset_size, offset_size) + 1
        kind == b[at] \div 16
        n == b[at] % 16
        Ref(k) == ReadNumber(b, at + 1 + (k - 1) * ref_size, ref_size)
    IN IF kind = 5 THEN JStr(SubSeq(b, at + 1, at + n))
       ELSE IF kind = 6 THEN JStr(Utf16Text(b, at + 1, n))
       ELSE JObj([k \in 1..n |->
                Member(read_object(b, table, offset_size, ref_size, Ref(k)).str,
                       read_object(b, table, offset_size, ref_size, Ref(n + k)))])
plist_loads_binary(b) ==
    IF Len(b) < Len(BinaryMagic) + 32 THEN ParseFailed
    ELSE LET trailer == Len(b) - 31
             offset_size == b[trailer + 6]
             ref_size == b[trailer + 7]
             top_object == ReadNumber(b, trailer + 16, 8)
             table == ReadNumber(b, trailer + 24, 8) + 1
         IN Parsed(read_object(b, table, offset_size, ref_size, top_object), Len(b) + 1)

\* plistlib.loads(data): the format is told by the first bytes.
plist_loads(bytes) ==
    IF StartsWith(bytes, 1, BinaryMagic) THEN plist_loads_binary(bytes)
    ELSE IF StartsWith(bytes, 1, Markup.xml_tag) \/ StartsWith(bytes, 1, Markup.plist_tag)
    THEN plist_loads_xml(bytes)
    ELSE ParseFailed

\* download_app_configuration, from the decoding on: what the call raises, if
\* anything, and the file it leaves.  The file is opened (created empty) before
\* the decoded text is parsed.
decoded_json_unparsed(decoded_config) == Parsed(JStr(decoded_config), Len(decoded_config) + 1)
decoded_json(decoded_config) == json_loads(decoded_config)
decoded_plist_unencoded(decoded_config) == plist_loads(decoded_config)
decoded_plist(decoded_config) == plist_loads(utf8_encode(decoded_config))
File(t, file_path, content) ==
    [app_type |-> t, file_path |-> file_path, content |-> content]
Saved(exc, file) == [error |-> exc, file |-> file]
\* The `with` block of each platform: the file is there, empty, when the parse
\* fails, and holds what dump writes of the parsed value otherwise.
written_json(t, file_path, json) ==
    IF ~json.ok THEN Saved("JSONDecodeError", Some(File(t, file_path, << >>)))
    ELSE Saved(NONE, Some(File(t, file_path, utf8_encode(json_dump(json.value)))))
written_plist(t, file_path, plist) ==
    IF ~plist.ok THEN Saved("InvalidFileException", Some(File(t, file_path, << >>)))
    ELSE Saved(NONE, Some(File(t, file_path, plist_dump(plist.value))))
save_decoded(t, file_path, decoded_config) ==
    IF ~decoded_config.ok THEN Saved("UnicodeDecodeError", Nothing)
    ELSE IF t = ANDROID
    THEN written_json(t, file_path, decoded_json(decoded_config.text))
    ELSE written_plist(t, file_path, decoded_plist(decoded_config.text))
save_configuration(t, path, r) ==
    save_decoded(t, << path, Get(r, "configFilename") >>,
                 utf8_decode(b64decode(r.configFileContents)))

\* open(file_path, "w"): a file written again is replaced.
write_file(fs, file) == { f \in fs : f.file_path # file.file_path } \cup { file }

\* ------------------------------------------------------- the remote side
\* Body of a response that reports an error.
ErrorBody == [error |-> "PERMISSION_DENIED"]

\* What the server side of one _execute_api_call of a run can do: answer with
\* one of `bodies` (at once, or after a transient failure), answer with a
\* status that is not retried, fail for ever, or break the transport.
Servers(bodies) ==
    { << Resp(200, b) >> : b \in bodies }
    \cup { << Resp(503, ErrorBody), Resp(200, b) >> : b \in bodies }
    \cup { << Resp(401, ErrorBody) >>, << Resp(404, ErrorBody) >>,
           << ConnectionFailed >>, << Unrecoverable >> }

\* GET /projects/{id}: the Firebase project, in any state of its set-up.
ProjectBodies(id) ==
    { EmptyDict,
      [projectId |-> id, state |-> "STATE_UNSPECIFIED"],
      [projectId |-> id, state |-> "ACTIVE"],
      [projectId |-> "another-project", state |-> "ACTIVE"] }

\* GET /projects/{id}/{platform}Apps: no application yet, or a listing.
App(id) == [appId |-> id]
FirstAppId(t) == IF t = ANDROID THEN "1:1:android:a" ELSE "1:1:ios:a"
OtherAppId(t) == IF t = ANDROID THEN "1:1:android:b" ELSE "1:1:ios:b"
ListBodies(t) ==
    { EmptyDict,
      [apps |-> << >>],
      [apps |-> << App(FirstAppId(t)) >>],
      [apps |-> << App(OtherAppId(t)), App(FirstAppId(t)) >>] }

\* An XML plist as the remote side writes it: keys in the document's order,
\* no white space between the elements.
RECURSIVE XmlElements(_), XmlMemberElements(_, _)
XmlElements(v) ==
    IF DOMAIN v = {"str"} THEN Markup.string_open \o v.str \o Markup.string_close
    ELSE Markup.dict_open \o XmlMemberElements(v.obj, 1) \o Markup.dict_close
XmlMemberElements(members, k) ==
    IF k > Len(members) THEN << >>
    ELSE Markup.key_open \o members[k].key \o Markup.key_close \o XmlElements(members[k].value)
         \o XmlMemberElements(members, k + 1)

\* An artifact: a value and the form its bytes are in.
Artifact(value, form) == [value |-> value, form |-> form]
ArtifactBytes(a) ==
    IF a.form = "json" THEN utf8_encode(json_text(a.value, 0, 0))
    ELSE IF a.form = "xml"
    THEN utf8_encode(PLIST_HEADER \o Markup.plist_open \o XmlElements(a.value)
                     \o Markup.plist_end)
    ELSE IF a.form = "xml-bare"
    THEN utf8_encode(Markup.plist_open \o XmlElements(a.value) \o Markup.plist_end)
    ELSE plist_binary(a.value)

\* GET .../config: the encoded artifact and its file name.
ConfigFilename(t) == IF t = ANDROID THEN "google-services.json" ELSE "GoogleService-Info.plist"
ConfigBodies(t) == { config[t] }

\* The artifacts of the runs of main: a small google-services.json and a small
\* GoogleService-Info.plist.
SampleArtifacts ==
    [t \in {ANDROID, IOS} |->
        IF t = ANDROID
        THEN Artifact(JObj(<< Member(Chars(<< "a" >>), JInt(1)) >>), "json")
        ELSE Artifact(JStr(Chars(<< "b" >>)), "xml-bare")]
ConfigOf(artifacts) ==
    [t \in {ANDROID, IOS} |->
        [configFilename |-> ConfigFilename(t),
         configFileContents |-> b64encode(ArtifactBytes(artifacts[t]))]]

\* ------------------------------------------------------------------ main
project_id == arguments.gcp_project_id

ArgumentSets ==
    [ auth : {"credentials.json"},
      gcp_project_id : {"my-test-project-123"},
      gcp_project_name : {NONE, "My Test Project"},
      android_package : {"com.test.app.project"},
      android_app_name : {NONE, "", "My Test App"},
      android_config_path : {Nothing},
      ios_bundle_id : {NONE, "", "com.test.app.project"},
      ios_app_name : {NONE, "My Test App"},
      app_store_id : {NONE, "123456789"},
      ios_config_path : {Nothing} ]

Init ==
    /\ arguments \in ArgumentSets
    /\ pc = "create_gcp_project"
    /\ app_type = ANDROID
    /\ fb_seconds = 0
    /\ apps_seconds = 0
    /\ apps = Nothing
    /\ android_app_id = NONE
    /\ ios_app_id = NONE
    /\ calls = << >>
    /\ fetched = << >>
    /\ sleeps = << >>
    /\ observed = << >>
    /\ files = {}
    /\ error = NONE
    /\ x_method = "get"
    /\ x_body = Nothing
    /\ x_server = << >>
    /\ x_result = Nothing
    /\ argv = [config_file |-> "config.json"]
    /\ config_json = arguments
    /\ token_usable = TRUE
    /\ credentials = [token |-> Tokens.stored]
    /\ document = SampleArtifacts
    /\ config = ConfigOf(SampleArtifacts)

\* An exception nobody catches ends the run.
Abort(exc) == pc' = "crashed" /\ error' = exc

\* The entry of a body read with .json() from the call being made.
Read(json) == [call |-> Len(calls) + 1, json |-> json]

\* Step 1: create_gcp_project; its result is dropped.
CreateProject ==
    /\ pc = "create_gcp_project"
    /\ \E server \in Servers({[name |-> "operations/cp"]}) :
         LET r == execute_api_call(Url(GCP_CRM_BASE_URL, << "projects" >>), "post",
                      Some(create_gcp_project_body(project_id, arguments.gcp_project_name)),
                      server)
         IN /\ calls' = Append(calls, r.request)
            /\ IF r.outcome = "raise" THEN Abort(r.exc)
               ELSE pc' = "add_firebase" /\ error' = error
    /\ UNCHANGED << arguments, app_type, fb_seconds, apps_seconds, apps, android_app_id,
                    ios_app_id, fetched, sleeps, observed, files >>
    /\ UNCHANGED << exec_vars, input_vars, remote_vars >>

\* Where add_app_to_firebase_project starts, for either platform: at the
\* activation poll.
add_app_entry_at_create == "create_app"
add_app_entry == "fetch_project"

\* Step 2: add_firebase_to_gcp_project; its result is dropped.  main then enters
\* add_app_to_firebase_project for Android (fb_seconds = 1).
AddFirebase ==
    /\ pc = "add_firebase"
    /\ \E server \in Servers({[name |-> "operations/af"]}) :
         LET r == execute_api_call(
                      Url(FIREBASE_BASE_URL, << "projects", project_id, ":addFirebase" >>),
                      "post", Some(EmptyDict), server)
         IN /\ calls' = Append(calls, r.request)
            /\ IF r.outcome = "raise"
               THEN Abort(r.exc) /\ UNCHANGED << app_type, fb_seconds >>
               ELSE /\ pc' = add_app_entry
                    /\ error' = error
                    /\ app_type' = ANDROID
                    /\ fb_seconds' = 1
    /\ UNCHANGED << arguments, apps_seconds, apps, android_app_id, ios_app_id, fetched,
                    sleeps, observed, files >>
    /\ UNCHANGED << exec_vars, input_vars, remote_vars >>

\* add_app_to_firebase_project, first loop: one iteration of the activation poll.
FetchProject ==
    /\ pc = "fetch_project"
    /\ \E server \in Servers(ProjectBodies(project_id)) :
         LET r == execute_api_call(Url(FIREBASE_BASE_URL, << "projects", project_id >>),
                                   "get", Nothing, server)
         IN /\ calls' = Append(calls, r.request)
            /\ IF r.outcome = "raise"
               THEN Abort(r.exc) /\ UNCHANGED << fb_seconds, fetched, sleeps, observed >>
               ELSE IF r.value = Nothing
               THEN Abort("AttributeError")
                    /\ UNCHANGED << fb_seconds, fetched, sleeps, observed >>
               ELSE LET fb_project == r.value[1].json IN
                    /\ fetched' = Append(fetched, Read(fb_project))
                    /\ error' = error
                    /\ IF project_is_active(fb_project, project_id)
                       THEN /\ pc' = "create_app"
                            /\ observed' = Append(observed, Read(fb_project))
                            /\ UNCHANGED << fb_seconds, sleeps >>
                       ELSE /\ Len(fetched) < MaxPolls
                            /\ sleeps' = Append(sleeps, fb_seconds)
                            /\ fb_seconds' = next_delay(fb_seconds)
                            /\ pc' = pc
                            /\ UNCHANGED observed
    /\ UNCHANGED << arguments, app_type, apps_seconds, apps, android_app_id, ios_app_id, files >>
    /\ UNCHANGED << exec_vars, input_vars, remote_vars >>

\* add_app_to_firebase_project: the application-create POST; its result is
\* dropped.  The second loop starts with apps = None, apps_seconds = 0.
CreateApp ==
    /\ pc = "create_app"
    /\ \E server \in Servers({[name |-> "operations/ca"]}) :
         LET r == execute_api_call(app_target_url(project_id, app_type), "post",
                      Some(app_body(app_type, package_name_of(app_type),
                                    app_name_of(app_type), store_id_of(app_type))),
                      server)
         IN /\ calls' = Append(calls, r.request)
            /\ IF r.outcome = "raise"
               THEN Abort(r.exc) /\ UNCHANGED << apps, apps_seconds, fetched, sleeps >>
               ELSE /\ pc' = "fetch_apps"
                    /\ error' = error
                    /\ apps' = Nothing
                    /\ apps_seconds' = 0
                    /\ fetched' = << >>
                    /\ sleeps' = << >>
    /\ UNCHANGED << arguments, app_type, fb_seconds, android_app_id, ios_app_id,
                    observed, files >>
    /\ UNCHANGED << exec_vars, input_vars, remote_vars >>

\* add_app_to_firebase_project, second loop: one iteration of the registration
\* poll and, when the loop ends, the extraction of the application id.
FetchApps ==
    /\ pc = "fetch_apps"
    /\ sleeps' = Append(sleeps, apps_seconds)
    /\ \E server \in Servers(ListBodies(app_type)) :
         LET r == execute_api_call(
                      Url(FIREBASE_BASE_URL, << "projects", project_id, AppsPart(app_type) >>),
                      "get", Nothing, server)
         IN /\ calls' = Append(calls, r.request)
            /\ IF r.outcome = "raise"
               THEN Abort(r.exc)
                    /\ UNCHANGED << apps, apps_seconds, fetched, observed,
                                    android_app_id, ios_app_id >>
               ELSE IF r.value = Nothing
               THEN Abort("AttributeError")
                    /\ UNCHANGED << apps, apps_seconds, fetched, observed,
                                    android_app_id, ios_app_id >>
               ELSE LET listing == r.value[1].json IN
                    /\ fetched' = Append(fetched, Read(listing))
                    /\ apps' = Some(listing)
                    /\ apps_seconds' = next_delay(apps_seconds)
                    /\ IF apps_pending(listing)
                       THEN /\ Len(fetched) < MaxPolls
                            /\ pc' = pc
                            /\ error' = error
                            /\ UNCHANGED << observed, android_app_id, ios_app_id >>
                       ELSE /\ observed' = Append(observed, Read(listing))
                            /\ IF "apps" \notin DOMAIN listing
                               THEN Abort("TypeError")
                                    /\ UNCHANGED << android_app_id, ios_app_id >>
                               ELSE IF listing.apps = << >>
                               THEN Abort("IndexError")
                                    /\ UNCHANGED << android_app_id, ios_app_id >>
                               ELSE LET app_id == Get(first_app(listing), "appId") IN
                                    /\ pc' = "download_config"
                                    /\ error' = error
                                    /\ android_app_id' =
                                           IF app_type = ANDROID THEN app_id
                                           ELSE android_app_id
                                    /\ ios_app_id' =
                                           IF app_type = IOS THEN app_id ELSE ios_app_id
    /\ UNCHANGED << arguments, app_type, fb_seconds, files >>
    /\ UNCHANGED << exec_vars, input_vars, remote_vars >>

\* download_app_configuration, and main's step to the iOS workflow
\* (add_app_to_firebase_project starts again with fb_seconds = 1) or to the end.
DownloadConfig ==
    /\ pc = "download_config"
    /\ \E server \in Servers(ConfigBodies(app_type)) :
         LET path == normalise_path(config_path_of(app_type))
             r == execute_api_call(
                      Url(FIREBASE_BASE_URL, << "projects", project_id, AppsPart(app_type),
                                                app_id_of(app_type), "config" >>),
                      "get", Nothing, server)
         IN /\ calls' = Append(calls, r.request)
            /\ IF r.outcome = "raise"
               THEN Abort(r.exc)
                    /\ UNCHANGED << fetched, sleeps, observed, files, app_type, fb_seconds >>
               ELSE IF r.value = Nothing
               THEN Abort("AttributeError")
                    /\ UNCHANGED << fetched, sleeps, observed, files, app_type, fb_seconds >>
               ELSE LET body == r.value[1].json IN
                    /\ observed' = Append(observed, Read(body))
                    /\ IF "configFileContents" \notin DOMAIN body
                       THEN Abort("TypeError")
                            /\ UNCHANGED << fetched, sleeps, files, app_type, fb_seconds >>
                       ELSE \E saved \in { save_configuration(app_type, path, body) } :
                            /\ files' = IF saved.file = Nothing THEN files
                                         ELSE write_file(files, saved.file[1])
                            /\ IF saved.error # NONE
                               THEN Abort(saved.error)
                                    /\ UNCHANGED << fetched, sleeps, app_type, fb_seconds >>
                               ELSE /\ error' = error
                                    /\ IF app_type = ANDROID /\ ios_requested
                                       THEN /\ app_type' = IOS
                                            /\ fb_seconds' = 1
                                            /\ fetched' = << >>
                                            /\ sleeps' = << >>
                                            /\ pc' = add_app_entry
                                       ELSE /\ pc' = "done"
                                            /\ UNCHANGED << app_type, fb_seconds,
                                                            fetched, sleeps >>
    /\ UNCHANGED << arguments, apps_seconds, apps, android_app_id, ios_app_id >>
    /\ UNCHANGED << exec_vars, input_vars, remote_vars >>

Next ==
    \/ CreateProject
    \/ AddFirebase
    \/ FetchProject
    \/ CreateApp
    \/ FetchApps
    \/ DownloadConfig

Spec == Init /\ [][Next]_vars

\* ---------------------------------------- one executor invocation on its own
\* Responses carry no Retry-After header and are no redirects.
ExecStatuses == {200, 401, 409, 400, 403, 404, 500, 502, 503, 504}
ExecOutcomes ==
    { Resp(s, IF s = 200 THEN [name |-> "ok"] ELSE ErrorBody) : s \in ExecStatuses }
    \cup { ConnectionFailed, Unrecoverable }

\* n outcomes alternating f1, f2, then the outcome t for ever.
Script(n, f1, f2, t) ==
    [i \in 1..(n + 1) |-> IF i = n + 1 THEN t ELSE IF i % 2 = 1 THEN f1 ELSE f2]

ExecServers ==
    { Script(n, f1, f2, t) : n \in 0..MaxK, f1 \in ExecOutcomes, f2 \in ExecOutcomes,
                             t \in ExecOutcomes }

ExecInit ==
    /\ arguments \in { a \in ArgumentSets : a.gcp_project_name = NONE
                          /\ a.android_app_name = NONE /\ a.ios_bundle_id = NONE
                          /\ a.ios_app_name = NONE /\ a.app_store_id = NONE }
    /\ pc = "idle"
    /\ app_type = ANDROID
    /\ fb_seconds = 0
    /\ apps_seconds = 0
    /\ apps = Nothing
    /\ android_app_id = NONE
    /\ ios_app_id = NONE
    /\ calls = << >>
    /\ fetched = << >>
    /\ sleeps = << >>
    /\ observed = << >>
    /\ files = {}
    /\ error = NONE
    /\ x_method \in {"get", "post"}
    /\ x_body \in {Nothing, Some([projectId |-> "my-test-project-123"])}
    /\ x_server \in ExecServers
    /\ x_result = Nothing
    /\ argv = [config_file |-> "config.json"]
    /\ config_json = arguments
    /\ token_usable = TRUE
    /\ credentials = [token |-> Tokens.stored]
    /\ document = SampleArtifacts
    /\ config = ConfigOf(SampleArtifacts)

\* _execute_api_call(url, x_method, body=x_body) against x_server.
ExecCall ==
    /\ x_result = Nothing
    /\ x_result' = Some(execute_api_call(Url(GCP_CRM_BASE_URL, << "projects" >>),
                                         x_method, x_body, x_server))
    /\ UNCHANGED << x_method, x_body, x_server >>
    /\ UNCHANGED << orch_vars, input_vars, remote_vars >>

ExecNext == ExecCall

SpecExec == ExecInit /\ [][ExecNext]_vars

\* ------------------------------------------- the inputs, up to the first call
\* A dict of arguments is read with .get only: an absent key is a key at None.
NoArguments ==
    [ auth |-> NONE, gcp_project_id |-> NONE, gcp_project_name |-> NONE,
      android_package |-> NONE, android_app_name |-> NONE,
      android_config_path |-> Nothing, ios_bundle_id |-> NONE,
      ios_app_name |-> NONE, app_store_id |-> NONE, ios_config_path |-> Nothing ]

\* fetch_args: all([auth, gcp_project_id, android_package])
required_arguments_any(args) ==
    TruthyStr(args.auth) \/ TruthyStr(args.gcp_project_id)
        \/ TruthyStr(args.android_package)
required_arguments_set(args) ==
    TruthyStr(args.auth) /\ TruthyStr(args.gcp_project_id)
        /\ TruthyStr(args.android_package)

\* fetch_args: any([ios_app_name, app_store_id, ios_config_path]) and not ios_bundle_id
ios_arguments_without_bundle_id(args) ==
    /\ \/ TruthyStr(args.ios_app_name)
       \/ TruthyStr(args.app_store_id)
       \/ (args.ios_config_path # Nothing /\ args.ios_config_path[1] # << >>)
    /\ ~TruthyStr(args.ios_bundle_id)

\* What the command line and the configuration file can hold.
CommandLines ==
    { [ NoArguments EXCEPT !.auth = a, !.gcp_project_id = p, !.android_package = k,
                           !.ios_bundle_id = b, !.ios_app_name = n ]
          @@ [config_file |-> c] :
      a \in {NONE, "credentials.json"},
      p \in {NONE, "", "my-test-project-123"},
      k \in {NONE, "com.test.app.project"},
      b \in {NONE, "com.test.app.project"},
      n \in {NONE, "My Test App"},
      c \in {NONE, "config.json"} }
ConfigFiles ==
    { [ NoArguments EXCEPT !.auth = a, !.gcp_project_id = p, !.android_package = k,
                           !.ios_bundle_id = b ] :
      a \in {NONE, "credentials.json"},
      p \in {NONE, "my-test-project-123"},
      k \in {NONE, "com.test.app.project"},
      b \in {NONE, "com.test.app.project"} }

InputInit ==
    /\ argv \in CommandLines
    /\ config_json \in ConfigFiles
    /\ token_usable \in BOOLEAN
    /\ credentials = [token |-> NONE]
    /\ arguments = NoArguments
    /\ pc = "fetch_args"
    /\ app_type = ANDROID
    /\ fb_seconds = 0
    /\ apps_seconds = 0
    /\ apps = Nothing
    /\ android_app_id = NONE
    /\ ios_app_id = NONE
    /\ calls = << >>
    /\ fetched = << >>
    /\ sleeps = << >>
    /\ observed = << >>
    /\ files = {}
    /\ error = NONE
    /\ x_method = "get"
    /\ x_body = Nothing
    /\ x_server = << >>
    /\ x_result = Nothing
    /\ document = SampleArtifacts
    /\ config = ConfigOf(SampleArtifacts)

\* sys.exit(1)
Exit == pc' = "exited" /\ error' = "SystemExit"

\* CommandLineClient.fetch_args
FetchArgs ==
    /\ pc = "fetch_args"
    /\ IF TruthyStr(argv.config_file)
       THEN /\ arguments' = NoArguments @@ [config_file |-> argv.config_file]
            /\ pc' = "load_configuration"
            /\ error' = error
       ELSE IF ~required_arguments_set(argv)
       THEN Exit /\ UNCHANGED arguments
       ELSE IF ios_arguments_without_bundle_id(argv)
       THEN Exit /\ UNCHANGED arguments
       ELSE /\ arguments' = argv
            /\ pc' = "load_configuration"
            /\ error' = error
    /\ UNCHANGED << app_type, fb_seconds, apps_seconds, apps, android_app_id, ios_app_id,
                    calls, fetched, sleeps, observed, files >>
    /\ UNCHANGED << exec_vars, input_vars, remote_vars >>

\* main: with a configuration file, its content replaces the arguments.
LoadConfiguration ==
    /\ pc = "load_configuration"
    /\ arguments' = IF TruthyStr(arguments.config_file) THEN config_json ELSE arguments
    /\ pc' = "obtain_credentials"
    /\ UNCHANGED << app_type, fb_seconds, apps_seconds, apps, android_app_id, ios_app_id,
                    calls, fetched, sleeps, observed, files, error >>
    /\ UNCHANGED << exec_vars, input_vars, remote_vars >>

\* GCPClient(credentials_file=arguments.get("auth")): the credentials file is
\* opened only when token.json gives no credentials; open(None) is a TypeError,
\* open("") a FileNotFoundError.
ObtainCredentials ==
    /\ pc = "obtain_credentials"
    /\ IF token_usable
       THEN /\ \E token \in {Tokens.stored, Tokens.refreshed} :
                 credentials' = [token |-> token]
            /\ pc' = "create_gcp_project"
            /\ error' = error
       ELSE IF TruthyStr(arguments.auth)
       THEN /\ credentials' = [token |-> Tokens.flow]
            /\ pc' = "create_gcp_project"
            /\ error' = error
       ELSE /\ Abort(IF arguments.auth = NONE THEN "TypeError" ELSE "FileNotFoundError")
            /\ UNCHANGED credentials
    /\ UNCHANGED << arguments, app_type, fb_seconds, apps_seconds, apps, android_app_id,
                    ios_app_id, calls, fetched, sleeps, observed, files >>
    /\ UNCHANGED << exec_vars, argv, config_json, token_usable, remote_vars >>

InputNext ==
    \/ FetchArgs
    \/ LoadConfiguration
    \/ ObtainCredentials
    \/ CreateProject

SpecInput == InputInit /\ [][InputNext]_vars

\* ------------------------------ download_app_configuration on its own
\* The documents the remote side may hold.  233 is an e with an acute accent
\* (two bytes in UTF-8), 8364 the euro sign (three bytes).
FewScalars == { JInt(42), JLit("null"), JStr(<< 97, 233 >>) }
Keys == { Chars(<< "a" >>), Chars(<< "b" >>) }
KeyPairs == { kk \in Keys \X Keys : kk[1] # kk[2] }
JsonInner ==
    { JObj(<< >>), JArr(<< >>) }
    \cup { JObj(<< Member(k, s) >>) : k \in Keys, s \in FewScalars }
    \cup { JArr(<< s >>) : s \in FewScalars }
JsonDocuments ==
    LET texts == { << >>, Chars(<< "a" >>), << 97, 233 >>, << 8364 >>,
                   Chars(<< "\"", "\\" >>) }
        scalars ==
            { JInt(0), JInt(42), JInt(-7) }
            \cup { JLit(name) : name \in {"true", "false", "null"} }
            \cup { JStr(text) : text \in texts }
        flat ==
            { JObj(<< >>), JArr(<< >>) }
            \cup { JObj(<< Member(k, s) >>) : k \in Keys, s \in scalars }
            \cup { JArr(<< s >>) : s \in scalars }
            \cup { JObj(<< Member(kk[1], s1), Member(kk[2], s2) >>) :
                       kk \in KeyPairs, s1 \in FewScalars, s2 \in FewScalars }
            \cup { JArr(<< s1, s2 >>) : s1 \in FewScalars, s2 \in FewScalars }
        nested ==
            { JObj(<< Member(k, d) >>) : k \in Keys, d \in JsonInner }
            \cup { JArr(<< d >>) : d \in JsonInner }
            \cup { JObj(<< Member(kk[1], d), Member(kk[2], s) >>) :
                       kk \in KeyPairs, d \in JsonInner, s \in FewScalars }
    IN scalars \cup flat \cup nested

\* 50089 is a Hangul syllable whose UTF-16 code unit, C3 A9, is also the UTF-8
\* form of 233.
PlistTexts == { Chars(<< "a" >>), Chars(<< "b" >>), << 97, 233 >>, << 50089 >> }
PlistDocuments ==
    { JStr(text) : text \in PlistTexts }
    \cup { JObj(<< >>) }
    \cup { JObj(<< Member(k, JStr(text)) >>) : k \in Keys, text \in PlistTexts }
    \cup { JObj(<< Member(kk[1], JStr(t1)), Member(kk[2], JStr(t2)) >>) :
               kk \in KeyPairs, t1 \in PlistTexts, t2 \in PlistTexts }

Artifacts(t) ==
    IF t = ANDROID THEN { Artifact(d, "json") : d \in JsonDocuments }
    ELSE { Artifact(p, form) : p \in PlistDocuments,
                               form \in {"xml", "xml-bare", "binary"} }

\* download_app_configuration is called for a registered application; an iOS
\* call is made only with a bundle id.
\* The destination directories a run can be given: none, the empty one, and
\* some with and without "/" at the end.
Destinations ==
    { Nothing, Some(<< >>), Some(<< "o" >>), Some(<< "o", "/" >>), Some(<< "/" >>),
      Some(<< "o", "/", "/" >>), Some(<< "o", "/", "d" >>) }

SaveInit ==
    /\ app_type \in {ANDROID, IOS}
    /\ arguments \in { [a EXCEPT !.android_config_path = d, !.ios_config_path = d] :
                          a \in { a \in ArgumentSets :
                                    /\ a.gcp_project_name = NONE /\ a.android_app_name = NONE
                                    /\ a.ios_app_name = NONE /\ a.app_store_id = NONE
                                    /\ a.ios_bundle_id # ""
                                    /\ app_type = IOS => a.ios_bundle_id # NONE },
                          d \in Destinations }
    /\ document \in { [SampleArtifacts EXCEPT ![app_type] = a] : a \in Artifacts(app_type) }
    /\ config = ConfigOf(document)
    /\ pc = "download_config"
    /\ fb_seconds = 1
    /\ apps_seconds = 1
    /\ apps = Some([apps |-> << App(FirstAppId(app_type)) >>])
    /\ android_app_id = FirstAppId(ANDROID)
    /\ ios_app_id = IF app_type = IOS THEN FirstAppId(IOS) ELSE NONE
    /\ calls = << >>
    /\ fetched = << >>
    /\ sleeps = << >>
    /\ observed = << >>
    /\ files = {}
    /\ error = NONE
    /\ x_method = "get"
    /\ x_body = Nothing
    /\ x_server = << >>
    /\ x_result = Nothing
    /\ argv = [config_file |-> "config.json"]
    /\ config_json = arguments
    /\ token_usable = TRUE
    /\ credentials = [token |-> Tokens.stored]

SpecSave == SaveInit /\ [][DownloadConfig]_vars

\* =================================================================== claims
\* The remote calls of a run, told apart by method and URL.
Requested == arguments.gcp_project_id
IsProjectCreate(c) ==
    c.method = "post" /\ c.url = Url(GCP_CRM_BASE_URL, << "projects" >>)
IsBindPlatform(c) ==
    c.method = "post" /\ c.url = Url(FIREBASE_BASE_URL, << "projects", Requested, ":addFirebase" >>)
IsProjectGet(c) ==
    c.method = "get" /\ c.url = Url(FIREBASE_BASE_URL, << "projects", Requested >>)
IsAppCreate(c, part) ==
    c.method = "post" /\ c.url = Url(FIREBASE_BASE_URL, << "projects", Requested, part >>)
IsAppList(c, part) ==
    c.method = "get" /\ c.url = Url(FIREBASE_BASE_URL, << "projects", Requested, part >>)
IsConfigGet(c, part) ==
    /\ c.method = "get"
    /\ c.url.base = FIREBASE_BASE_URL
    /\ Len(c.url.path) = 5
    /\ c.url.path[1] = "projects" /\ c.url.path[2] = Requested
    /\ c.url.path[3] = part /\ c.url.path[5] = "config"
Parts == {"androidApps", "iosApps"}
IsIosCall(c) ==
    IsAppCreate(c, "iosApps") \/ IsAppList(c, "iosApps") \/ IsConfigGet(c, "iosApps")

\* The body of a project GET names the requested project in state ACTIVE.
IsActiveBody(json) ==
    /\ "projectId" \in DOMAIN json /\ json["projectId"] = Requested
    /\ "state" \in DOMAIN json /\ json["state"] = "ACTIVE"

\* An input counts as supplied when it is given and not the empty string.
Supplied(value) == value # NONE /\ value # ""

CallIndexes == 1..Len(calls)
ObservedIndexes == 1..Len(observed)

\* C1: every application-create call (POST .../androidApps or .../iosApps) is
\* preceded by a project GET that returned a body whose projectId is the
\* requested project id and whose state is ACTIVE.
C1_CreateOnlyAfterActive ==
    \A i \in CallIndexes :
        (\E part \in Parts : IsAppCreate(calls[i], part))
        => \E o \in ObservedIndexes :
               /\ observed[o].call < i
               /\ IsProjectGet(calls[observed[o].call])
               /\ IsActiveBody(observed[o].json)

\* C1 witness: the Android application-create call has been issued after an
\* activation poll that first met a project that was not ACTIVE.
C1_Witness ==
    /\ pc = "fetch_apps"
    /\ app_type = ANDROID
    /\ fb_seconds > 1
    /\ \E i \in CallIndexes : IsAppCreate(calls[i], "androidApps")

\* The application ids a listing body names.
ListedIds(json) ==
    IF "apps" \in DOMAIN json
    THEN { json["apps"][k]["appId"] : k \in 1..Len(json["apps"]) }
    ELSE {}

\* C2: every configuration GET (.../{platform}Apps/{appId}/config) carries an
\* application id that an earlier, non-empty listing response for the same
\* platform and project returned.
C2_ConfigIdWasListed ==
    \A i \in CallIndexes : \A part \in Parts :
        IsConfigGet(calls[i], part)
        => \E o \in ObservedIndexes :
               /\ observed[o].call < i
               /\ IsAppList(calls[observed[o].call], part)
               /\ calls[i].url.path[4] \in ListedIds(observed[o].json)

\* C2 witness: a run with iOS requested has ended after both configuration GETs.
C2_Witness ==
    /\ pc = "done"
    /\ \E i \in CallIndexes : IsConfigGet(calls[i], "androidApps")
    /\ \E i \in CallIndexes : IsConfigGet(calls[i], "iosApps")

\* The bodies read by the polling loop in progress, and its calls.
FetchedIndexes == 1..Len(fetched)
Misses == Len(fetched) - 1
CountUp(n) == [k \in 1..n |-> k]

\* The loop's reads are its last Len(fetched) calls, all of them `IsCall`.
LoopCallsAreLast(IsCall(_)) ==
    \A k \in FetchedIndexes :
        /\ fetched[k].call = Len(calls) - Len(fetched) + k
        /\ IsCall(calls[fetched[k].call])

\* C6: the activation poll goes on exactly as long as the project GET does not
\* return the requested id in state ACTIVE: after N such responses and one that
\* does, it has issued N + 1 GET calls and proceeds; the sleep after the k-th
\* unsuccessful call was k, so the delays never decrease.
C6_ActivationPoll ==
    /\ pc = "fetch_project"
       => /\ \A k \in FetchedIndexes : ~IsActiveBody(fetched[k].json)
          /\ LoopCallsAreLast(IsProjectGet)
          /\ sleeps = CountUp(Len(fetched))
    /\ pc = "create_app"
       => /\ Len(fetched) >= 1
          /\ \A k \in 1..Misses : ~IsActiveBody(fetched[k].json)
          /\ IsActiveBody(fetched[Misses + 1].json)
          /\ LoopCallsAreLast(IsProjectGet)
          /\ sleeps = CountUp(Misses)
          /\ \A k \in 1..(Misses - 1) : sleeps[k] <= sleeps[k + 1]

\* C6 witness: the poll has ended on its third GET, after sleeps of 1 and 2.
C6_Witness ==
    /\ pc = "create_app"
    /\ Len(fetched) = 3
    /\ sleeps = << 1, 2 >>

\* A listing that names no application: the empty object.
IsEmptyListing(json) == json = EmptyDict
IsListingOf(json) == "apps" \in DOMAIN json /\ Len(json["apps"]) >= 1
PartOf(t) == IF t = ANDROID THEN "androidApps" ELSE "iosApps"
IsAppListOfCurrent(c) == IsAppList(c, PartOf(app_type))

HasBody(c) == c.data # Nothing
BodyOf(c) == c.data[1].text

Issued(IsCall(_)) == \E i \in CallIndexes : IsCall(calls[i])
IsAndroidCreate(c) == IsAppCreate(c, "androidApps")
IsAndroidList(c) == IsAppList(c, "androidApps")
IsAndroidConfig(c) == IsConfigGet(c, "androidApps")
IsIosCreate(c) == IsAppCreate(c, "iosApps")
IsIosList(c) == IsAppList(c, "iosApps")
IsIosConfig(c) == IsConfigGet(c, "iosApps")

\* C8: when no iOS bundle identifier is supplied no iOS call (create, list,
\* config) is ever issued and a run that ends has executed stages 1-6 for
\* Android only; Android stages 4-6 are part of every run that ends.
C8_AndroidOnlyWithoutBundleId ==
    /\ ~Supplied(arguments.ios_bundle_id)
       => \A i \in CallIndexes : ~IsIosCall(calls[i])
    /\ pc = "done"
       => /\ Issued(IsProjectCreate) /\ Issued(IsBindPlatform) /\ Issued(IsProjectGet)
          /\ Issued(IsAndroidCreate) /\ Issued(IsAndroidList) /\ Issued(IsAndroidConfig)
          /\ \E f \in files : f.app_type = ANDROID
    /\ (pc = "done" /\ ~Supplied(arguments.ios_bundle_id))
       => /\ app_type = ANDROID
          /\ \A f \in files : f.app_type = ANDROID

\* C8 witness: a run without an iOS bundle id (but with other iOS inputs, as
\* a configuration file may give them) has ended.
C8_Witness ==
    /\ pc = "done"
    /\ arguments.ios_bundle_id = NONE
    /\ arguments.ios_app_name # NONE
    /\ arguments.app_store_id # NONE

\* The keys an application-create body must have, by platform and inputs.
OptionalKey(key, value) == IF Supplied(value) THEN {key} ELSE {}

\* C9: an Android application is created by POST .../androidApps with
\* packageName and never bundleId or appStoreId; an iOS application by POST
\* .../iosApps with bundleId, plus appStoreId exactly when a store id is
\* supplied; displayName is present exactly when an app name is supplied.  A run
\* with an iOS bundle id that ends has executed stages 4-6 for iOS too.
C9_CreateBodyByPlatform ==
    /\ \A i \in CallIndexes :
          /\ IsAndroidCreate(calls[i])
             => /\ HasBody(calls[i])
                /\ DOMAIN BodyOf(calls[i]) =
                       {"packageName"} \cup OptionalKey("displayName", arguments.android_app_name)
                /\ BodyOf(calls[i])["packageName"] = arguments.android_package
                /\ Supplied(arguments.android_app_name)
                   => BodyOf(calls[i])["displayName"] = arguments.android_app_name
          /\ IsIosCreate(calls[i])
             => /\ HasBody(calls[i])
                /\ DOMAIN BodyOf(calls[i]) =
                       {"bundleId"} \cup OptionalKey("appStoreId", arguments.app_store_id)
                                    \cup OptionalKey("displayName", arguments.ios_app_name)
                /\ BodyOf(calls[i])["bundleId"] = arguments.ios_bundle_id
                /\ Supplied(arguments.app_store_id)
                   => BodyOf(calls[i])["appStoreId"] = arguments.app_store_id
                /\ Supplied(arguments.ios_app_name)
                   => BodyOf(calls[i])["displayName"] = arguments.ios_app_name
    /\ (pc = "done" /\ Supplied(arguments.ios_bundle_id))
       => Issued(IsIosCreate) /\ Issued(IsIosList) /\ Issued(IsIosConfig)

\* C9 witness: a run with iOS bundle id, app name and store id has ended, its
\* iOS create body holding bundleId, appStoreId and displayName.
C9_Witness ==
    /\ pc = "done"
    /\ \E i \in CallIndexes :
          /\ IsIosCreate(calls[i])
          /\ DOMAIN BodyOf(calls[i]) = {"bundleId", "appStoreId", "displayName"}

\* C10: project creation is the first remote call of the run and the only one of
\* its kind: one POST to /projects whose body holds the given project id, and
\* displayName only when a project name is supplied; no later stage, whatever
\* its outcome, issues it again.
C10_CreateProjectOnce ==
    /\ pc # "create_gcp_project" => Len(calls) >= 1
    /\ Len(calls) >= 1
       => /\ IsProjectCreate(calls[1])
          /\ HasBody(calls[1])
          /\ DOMAIN BodyOf(calls[1]) =
                 {"projectId"} \cup OptionalKey("displayName", arguments.gcp_project_name)
          /\ BodyOf(calls[1])["projectId"] = arguments.gcp_project_id
          /\ Supplied(arguments.gcp_project_name)
             => BodyOf(calls[1])["displayName"] = arguments.gcp_project_name
    /\ \A i \in CallIndexes : i > 1 => ~IsProjectCreate(calls[i])

\* C10 witness: a run without a project name has been ended by a later stage's
\* failure, with the one create call at its head.
C10_Witness ==
    /\ pc = "crashed"
    /\ arguments.gcp_project_name = NONE
    /\ Len(calls) >= 4
    /\ IsProjectCreate(calls[1])

\* ------------------------------------------- claims about the call executor
\* The transient-failure set, and a success.
TransientStatuses == {400, 403, 404, 500, 502, 503, 504}
IsTransient(o) == IsResponse(o) /\ o.status \in TransientStatuses
IsSuccess(o) == IsResponse(o) /\ o.status = 200

ExecDone == x_result # Nothing
ExecResult == x_result[1]

\* The server returns a retryable status on attempts 1..k-1 and success on k.
SucceedsAt(k) ==
    /\ k <= Len(x_server)
    /\ \A i \in 1..(k - 1) : IsTransient(x_server[i])
    /\ IsSuccess(x_server[k])
Attempts == 1..(MaxK + 2)

\* C3 as stated: k requests and the success response when k <= 10; 10 requests,
\* never an 11th, and absence when k > 10.
C3_TenAttempts ==
    ExecDone
    => \A k \in Attempts :
          SucceedsAt(k)
          => IF k <= 10
             THEN /\ ExecResult.sent = k
                  /\ ExecResult.outcome = "return"
                  /\ ExecResult.value = Some(x_server[k])
             ELSE /\ ExecResult.sent = 10
                  /\ ExecResult.outcome = "return"
                  /\ ExecResult.value = Nothing

\* C3, amended: against a server that returns a retryable status on attempts
\* 1..k-1 and success on attempt k, one invocation sends exactly k requests and
\* returns the success response when k <= 11 (the first request and up to 10
\* retries); when k > 11 it sends 11 requests, never a 12th, and returns
\* absence.  This holds for every HTTP method, POST included.
C3_TenRetries ==
    ExecDone
    => /\ ExecResult.sent <= 11
       /\ \A k \in Attempts :
             SucceedsAt(k)
             => IF k <= 11
                THEN /\ ExecResult.sent = k
                     /\ ExecResult.outcome = "return"
                     /\ ExecResult.value = Some(x_server[k])
                ELSE /\ ExecResult.sent = 11
                     /\ ExecResult.outcome = "return"
                     /\ ExecResult.value = Nothing

\* C3 witness: a POST whose 11th request succeeded, after ten retryable statuses.
C3_Witness ==
    /\ ExecDone
    /\ x_method = "post"
    /\ SucceedsAt(11)
    /\ ExecResult.sent = 11
    /\ ExecResult.value = Some(x_server[11])

IsAbsorbed(o) == IsTransient(o) \/ o = ConnectionFailed
Decisive == { i \in 1..11 : ~IsAbsorbed(ServerAt(x_server, i)) }
FirstDecisive == CHOOSE i \in Decisive : \A j \in Decisive : i <= j

\* C5: every invocation, whatever the method, the statuses and the transport
\* errors it meets, ends by returning: the response that ended the retries, or
\* absence after retry exhaustion or an unrecoverable transport error.  No
\* exception leaves the executor.
C5_NeverRaises ==
    ExecDone
    => /\ ExecResult.outcome = "return"
       /\ IF Decisive = {}
          THEN ExecResult.value = Nothing
          ELSE IF IsResponse(ServerAt(x_server, FirstDecisive))
          THEN ExecResult.value = Some(ServerAt(x_server, FirstDecisive))
          ELSE ExecResult.value = Nothing

\* C5 witness: an invocation that met connection errors and retryable statuses
\* in turn until the retries were exhausted has returned absence.
C5_Witness ==
    /\ ExecDone
    /\ Len(x_server) >= 12
    /\ x_server[1] = ConnectionFailed
    /\ IsTransient(x_server[2])
    /\ Decisive = {}
    /\ ExecResult.outcome = "return"
    /\ ExecResult.value = Nothing

\* ------------------------------------------------- claims about the inputs
\* The inputs the run works from: the file's when a file is named.
EffectiveInput == IF TruthyStr(argv.config_file) THEN config_json ELSE argv
FromCommandLine == ~TruthyStr(argv.config_file)
MissingRequired(a) ==
    \/ ~Supplied(a.auth)
    \/ ~Supplied(a.gcp_project_id)
    \/ ~Supplied(a.android_package)

\* C11 as stated: whatever the input source, command line or configuration
\* file, a missing credential path, project id or Android package name stops
\* the run before any remote call.
C11_MissingInputStops ==
    MissingRequired(EffectiveInput) => calls = << >>

\* C11, amended: when the inputs come from the command line (no configuration
\* file is named), a missing or empty credential path, project id or Android
\* package name ends the run in fetch_args, before the credentials are obtained
\* and before any remote call.
C11_CommandLineInputChecked ==
    (FromCommandLine /\ MissingRequired(argv))
    => /\ calls = << >>
       /\ pc \in {"fetch_args", "exited"}
       /\ pc = "exited" => error = "SystemExit"

\* C11 witness: a command line without the Android package name, the other
\* required arguments given, has ended the run.
C11_Witness ==
    /\ pc = "exited"
    /\ FromCommandLine
    /\ argv.android_package = NONE
    /\ Supplied(argv.auth)
    /\ Supplied(argv.gcp_project_id)

\* ----------------------------------------- claims about artifact saving
\* The configuration GET of platform t was answered with the encoded artifact.
Delivered(t) ==
    \E o \in ObservedIndexes :
        /\ IsConfigGet(calls[observed[o].call], PartOf(t))
        /\ observed[o].json = config[t]
Destination(t) ==
    << normalise_path(IF t = ANDROID THEN arguments.android_config_path
                      ELSE arguments.ios_config_path),
       config[t].configFilename >>
FilesAt(t) == { f \in files : f.file_path = Destination(t) }
\* What a reader of the written file gets.
JsonOf(f) ==
    LET text == utf8_decode(f.content) IN
    IF text.ok THEN json_loads(text.text) ELSE ParseFailed

PlistOf(f) == plist_loads(f.content)
IsBinaryPlist(bytes) == StartsWith(bytes, 1, BinaryMagic)
IsXmlPlist(bytes) == StartsWith(bytes, 1, Markup.xml_tag)
\* Equality of plist structures: a dict is its set of key/value pairs.
Structure(v) ==
    IF DOMAIN v = {"str"} THEN v
    ELSE { << v.obj[k].key, v.obj[k].value >> : k \in DOMAIN v.obj }
SavedPlistEquals(f, v) == PlistOf(f).ok /\ Structure(PlistOf(f).value) = Structure(v)

LastCall == calls[Len(calls)]
IsPollCall(c) == IsProjectGet(c) \/ \E part \in Parts : IsAppList(c, part)

\* C14: a polling stage whose fetch got no response object from the call
\* executor (the executor returned None) goes on with its loop: no run has
\* ended on the read of such a result (AttributeError) after a project GET or
\* an application list GET.
C14_PollSurvivesAbsence ==
    ~(/\ pc = "crashed"
      /\ error = "AttributeError"
      /\ Len(calls) >= 1
      /\ IsPollCall(LastCall))

\* C15: the registration poll ends only on a listing that names an
\* application: every list response on which the loop has ended names at least
\* one application, and no run has ended on taking the first application of a
\* response that names none (IndexError, TypeError).
C15_EndsOnlyOnListing ==
    /\ \A o \in ObservedIndexes : \A part \in Parts :
          IsAppList(calls[observed[o].call], part) => IsListingOf(observed[o].json)
    /\ ~(/\ pc = "crashed"
         /\ error \in {"IndexError", "TypeError"}
         /\ Len(calls) >= 1
         /\ \E part \in Parts : IsAppList(LastCall, part))


IsAnyAppCreate(c) == \E part \in Parts : IsAppCreate(c, part)
\* Call j of the run comes right after a call that satisfies IsCall.
Follows(j, IsCall(_)) == j > 1 /\ IsCall(calls[j - 1])

\* C16 as stated: after the first application-create call no project-create,
\* platform-binding or project GET call is issued.
C16_NoEarlierStageAfterCreate ==
    \A i \in CallIndexes : \A j \in CallIndexes :
        (i < j /\ IsAnyAppCreate(calls[i]))
        => ~(IsProjectCreate(calls[j]) \/ IsBindPlatform(calls[j]) \/ IsProjectGet(calls[j]))

\* C16: the calls follow the stage order.  The project-create is the first
\* call and the platform-binding the second, and neither is issued again; a
\* project GET follows the platform-binding, a project GET or the Android
\* config GET; an application-create follows a project GET; a list GET follows
\* its platform's application-create or list GET; a config GET follows its
\* platform's list GET; an iOS call never precedes an Android one.
C16_StageOrder ==
    \A j \in CallIndexes :
        /\ IsProjectCreate(calls[j]) <=> j = 1
        /\ IsBindPlatform(calls[j]) <=> j = 2
        /\ IsProjectGet(calls[j])
           => \/ Follows(j, IsBindPlatform) \/ Follows(j, IsProjectGet)
              \/ Follows(j, IsAndroidConfig)
        /\ IsAnyAppCreate(calls[j]) => Follows(j, IsProjectGet)
        /\ IsAndroidList(calls[j])
           => Follows(j, IsAndroidCreate) \/ Follows(j, IsAndroidList)
        /\ IsIosList(calls[j]) => Follows(j, IsIosCreate) \/ Follows(j, IsIosList)
        /\ IsAndroidConfig(calls[j]) => Follows(j, IsAndroidList)
        /\ IsIosConfig(calls[j]) => Follows(j, IsIosList)
        /\ IsIosCall(calls[j]) => \A k \in CallIndexes : k > j => IsIosCall(calls[k])
        /\ \/ IsProjectCreate(calls[j]) \/ IsBindPlatform(calls[j]) \/ IsProjectGet(calls[j])
           \/ IsAnyAppCreate(calls[j]) \/ IsAndroidList(calls[j]) \/ IsIosList(calls[j])
           \/ IsAndroidConfig(calls[j]) \/ IsIosConfig(calls[j])

\* C16 witness: a run for both platforms has ended, its activation poll having
\* run again, with one unsuccessful GET, after the Android config GET.
C16_Witness ==
    /\ pc = "done"
    /\ Issued(IsIosConfig)
    /\ \E j \in CallIndexes :
          /\ Follows(j, IsAndroidConfig) /\ IsProjectGet(calls[j])
          /\ j < Len(calls) /\ IsProjectGet(calls[j + 1])


\* A step of the activation poll that reads a response which is not the
\* requested project in state ACTIVE.
ReadsInactive ==
    /\ pc = "fetch_project"
    /\ Len(fetched') = Len(fetched) + 1
    /\ ~IsActiveBody(fetched'[Len(fetched')].json)
\* No response read so far in the current activation poll, and none on which
\* an earlier one ended, was the requested project in state ACTIVE.
NeverActive ==
    /\ \A k \in FetchedIndexes : ~IsActiveBody(fetched[k].json)
    /\ \A o \in ObservedIndexes :
          IsProjectGet(calls[observed[o].call]) => ~IsActiveBody(observed[o].json)

\* C17: the activation poll never gives up.  However many project GETs have
\* been answered, a step that reads one more response that is not the requested
\* project in state ACTIVE leaves the run in the poll, without an error, having
\* issued one project GET, slept the current delay and raised the delay by one;
\* and as long as no response has been the requested project in state ACTIVE the
\* run has neither ended nor issued an application-create call.
C17_ActivationNeverGivesUp ==
    /\ [][ReadsInactive
          => /\ pc' = "fetch_project"
             /\ error' = NONE
             /\ Len(calls') = Len(calls) + 1
             /\ IsProjectGet(calls'[Len(calls')])
             /\ sleeps' = Append(sleeps, fb_seconds)
             /\ fb_seconds' = fb_seconds + 1]_vars
    /\ [](( /\ pc \notin {"create_gcp_project", "add_firebase", "crashed"}
            /\ NeverActive)
          => /\ pc = "fetch_project"
             /\ \A i \in CallIndexes : ~IsAnyAppCreate(calls[i]))

\* C17 witness: the activation poll is still running after as many responses
\* as the model follows, none of them the requested project in state ACTIVE,
\* the last one an active project of another id.
C17_Witness ==
    /\ pc = "fetch_project"
    /\ app_type = ANDROID
    /\ Len(fetched) = MaxPolls
    /\ NeverActive
    /\ Get(fetched[MaxPolls].json, "state") = "ACTIVE"
    /\ sleeps = CountUp(MaxPolls)


\* The calls the orchestrator gives a body: the three POSTs (the body of the
\* platform-binding POST is the empty object); the GETs are given none.
IsGivenBody(c) == IsProjectCreate(c) \/ IsBindPlatform(c) \/ IsAnyAppCreate(c)

\* C18: a call carries a JSON payload exactly when the orchestrator gave it a
\* body, and the payload of the platform-binding POST is the empty object.
C18_PayloadIffBodyGiven ==
    \A i \in CallIndexes :
        /\ HasBody(calls[i]) <=> IsGivenBody(calls[i])
        /\ IsBindPlatform(calls[i]) => (HasBody(calls[i]) /\ BodyOf(calls[i]) = EmptyDict)


IsAndroidCall(c) == IsAndroidCreate(c) \/ IsAndroidList(c) \/ IsAndroidConfig(c)
\* The Android artifact has been written to its file (what the file holds is
\* the matter of C12).
AndroidPersisted ==
    \E f \in FilesAt(ANDROID) : f.app_type = ANDROID /\ f.content # << >>

\* The iOS workflow has started: main has made its iOS call of
\* add_app_to_firebase_project, or an iOS call has been issued.
IosStarted == app_type = IOS \/ \E j \in CallIndexes : IsIosCall(calls[j])

\* C19: Android runs to completion before iOS starts.  Once the iOS workflow
\* has started, iOS being requested, the Android artifact is in its file; the
\* Android config GET came before every iOS call (create, list, config) and no
\* Android call comes after one.
C19_AndroidBeforeIos ==
    /\ IosStarted => (AndroidPersisted /\ Supplied(arguments.ios_bundle_id))
    /\ \A j \in CallIndexes :
          IsIosCall(calls[j])
          => /\ \E i \in CallIndexes : i < j /\ IsAndroidConfig(calls[i])
             /\ \A k \in CallIndexes : k > j => ~IsAndroidCall(calls[k])

\* C19 witness: the iOS application-create has been issued and its listing is
\* being polled, the Android artifact being in its file.
C19_Witness ==
    /\ pc = "fetch_apps"
    /\ app_type = IOS
    /\ Len(fetched) = 1
    /\ Issued(IsIosCreate)
    /\ AndroidPersisted


\* The generic poller: fetch; if the predicate holds return; otherwise sleep
\* the current delay, add the increment to the delay, repeat.  holds[k] tells
\* whether the predicate holds of the k-th fetch result; the sleeps are those
\* the poller has made when it has dealt with the results from the k-th on.
RECURSIVE generic_sleeps(_, _, _, _)
generic_sleeps(holds, k, delay, increment) ==
    IF k > Len(holds) \/ holds[k] THEN << >>
    ELSE << delay >> \o generic_sleeps(holds, k + 1, delay + increment, increment)
\* The poller makes no fetch after one of which the predicate holds.
GenericFetches(holds) == \A k \in 1..(Len(holds) - 1) : ~holds[k]
\* The sleeps between the consecutive attempts that fetched the results.
GenericBetween(holds, initial_delay, increment) ==
    SubSeq(generic_sleeps(holds, 1, initial_delay, increment), 1, Len(holds) - 1)

\* The results of the current loop under the activation predicate, under the
\* predicate "the listing is non-empty", and under the exit test of the
\* registration loop (`not apps` is false: the body is not the empty object).
ActiveResults == [k \in FetchedIndexes |-> IsActiveBody(fetched[k].json)]
ListingResults == [k \in FetchedIndexes |-> IsListingOf(fetched[k].json)]
TruthyResults == [k \in FetchedIndexes |-> fetched[k].json # EmptyDict]
\* The sleeps of the registration loop that lie between two of its attempts.
SleepsBetweenLists == IF sleeps = << >> THEN << >> ELSE Tail(sleeps)

InActivation == pc = "fetch_project"
AfterActivation == pc = "create_app"
InRegistration == pc = "fetch_apps"
AfterRegistration ==
    \/ pc = "download_config"
    \/ /\ pc = "crashed" /\ error \in {"IndexError", "TypeError"}
       /\ Len(calls) >= 1 /\ \E part \in Parts : IsAppList(LastCall, part)

\* The activation loop is the generic poller with initial_delay 1, increment 1.
ActivationRefines ==
    (InActivation \/ AfterActivation)
    => /\ LoopCallsAreLast(IsProjectGet)
       /\ GenericFetches(ActiveResults)
       /\ AfterActivation <=> (fetched # << >> /\ ActiveResults[Len(fetched)])
       /\ sleeps = generic_sleeps(ActiveResults, 1, 1, 1)

CredentialInit ==
    /\ arguments \in { a \in ArgumentSets :
                          /\ a.gcp_project_name = NONE /\ a.android_app_name = NONE
                          /\ a.ios_app_name = NONE /\ a.app_store_id = NONE
                          /\ a.ios_bundle_id # "" }
    /\ pc = "obtain_credentials"
    /\ token_usable \in BOOLEAN
    /\ credentials = [token |-> NONE]
    /\ app_type = ANDROID
    /\ fb_seconds = 0
    /\ apps_seconds = 0
    /\ apps = Nothing
    /\ android_app_id = NONE
    /\ ios_app_id = NONE
    /\ calls = << >>
    /\ fetched = << >>
    /\ sleeps = << >>
    /\ observed = << >>
    /\ files = {}
    /\ error = NONE
    /\ x_method = "get"
    /\ x_body = Nothing
    /\ x_server = << >>
    /\ x_result = Nothing
    /\ argv = [config_file |-> "config.json"]
    /\ config_json = arguments
    /\ document = SampleArtifacts
    /\ config = ConfigOf(SampleArtifacts)

CredentialNext ==
    \/ ObtainCredentials
    \/ Next

SpecCredential == CredentialInit /\ [][CredentialNext]_vars

\* ------------------------------------------------------------------- C21
Acquired == pc # "obtain_credentials"
Invoked == Len(calls') = Len(calls) + 1
Invocation == calls'[Len(calls')]

\* C21: once the credentials are obtained no step of the run changes them, and
\* the Authorization header of every executor invocation is "Bearer " followed
\* by the token the credentials hold when that invocation is made.
C21_CredentialOnlyRead ==
    /\ [][Acquired => credentials' = credentials]_vars
    /\ [][Invoked => Invocation.headers.Authorization = Bearer(credentials.token)]_vars

\* A run that refreshed the stored token (or went through the flow) and has
\* made several calls since, each carrying the token obtained.
C21_Witness ==
    /\ credentials.token \in {Tokens.refreshed, Tokens.flow}
    /\ Len(calls) >= 3
    /\ \A j \in CallIndexes : calls[j].headers.Authorization = Bearer(credentials.token)

\* ------------------------------------------------------------------- C22
\* The destination directory a platform's download was given.
Given(t) == IF t = ANDROID THEN arguments.android_config_path ELSE arguments.ios_config_path
IsAbsentOrEmpty(destination) == destination = Nothing \/ destination[1] = << >>
EndsInSeparator(p) == p # << >> /\ p[Len(p)] = "/"
\* The prefix as stated, case by case.
StatedPrefix(destination) ==
    IF IsAbsentOrEmpty(destination) THEN << >>
    ELSE IF EndsInSeparator(destination[1]) THEN destination[1]
    ELSE destination[1] \o << "/" >>

\* C22: the prefix of a destination is empty when the destination is absent or
\* empty, the destination with exactly one "/" appended when it is non-empty
\* and does not end in "/", and the destination itself when it ends in "/";
\* normalising a prefix again leaves it as it is; and every file written is
\* written at the prefix of its platform's destination followed by the
\* configFilename of the platform's config body.
C22_NormalisedDestination ==
    \A t \in {ANDROID, IOS} :
        /\ normalise_path(Given(t)) = StatedPrefix(Given(t))
        /\ normalise_path(Some(normalise_path(Given(t)))) = normalise_path(Given(t))
        /\ \A f \in files :
               f.app_type = t =>
                   f.file_path = << StatedPrefix(Given(t)), config[t].configFilename >>

\* A file written for a destination that ended in "/" already, with a
\* directory below the top: the destination is the prefix, unchanged.
C22_Witness ==
    \E f \in files :
        /\ Given(f.app_type) = Some(<< "o", "/" >>)
        /\ f.file_path = << << "o", "/" >>, config[f.app_type].configFilename >>
        /\ f.content # << >>

\* ------------------------------------------------------------------- C23
\* How a run can have ended without the statement applying to it: a call gave
\* no response (the executor raised, or returned None and the read of the
\* result failed), or the run ended in download_app_configuration, on a config
\* body that is no valid payload.
Unanswered == error \in RequestExceptions \cup {"AttributeError"}
InvalidPayload == Len(calls) >= 1 /\ \E part \in Parts : IsConfigGet(LastCall, part)
RequestedPlatforms == IF ios_requested THEN {ANDROID, IOS} ELSE {ANDROID}
ConfigFetches(t) == { j \in CallIndexes : IsConfigGet(calls[j], PartOf(t)) }
ArtifactFiles(t) == { f \in files : f.app_type = t }

\* C23: a run in which every call returned a response and every config fetch
\* returned a valid payload ends, once the project reads ACTIVE and the
\* listings name an application, at the end of main and not on an exception,
\* and it has then issued exactly one config fetch and written exactly one
\* artifact file for Android and, when an iOS bundle id was supplied, for iOS
\* (none for iOS otherwise).
C23_AnsweredRunCompletes ==
    /\ pc = "crashed" => Unanswered \/ InvalidPayload
    /\ pc = "done" =>
           \A t \in {ANDROID, IOS} :
               IF t \in RequestedPlatforms
               THEN Cardinality(ConfigFetches(t)) = 1 /\ Cardinality(ArtifactFiles(t)) = 1
               ELSE ConfigFetches(t) = {} /\ ArtifactFiles(t) = {}

====
